---- MODULE Spec2Model ----
(***************************************************************************)
(* A model of the HTTP/1.1 server core of http-server-rust: the request    *)
(* parser (request.rs), the response serializer (response.rs) and the      *)
(* connection loop, router and route handlers (handlers.rs).               *)
(*                                                                         *)
(* Bytes are one-character strings; a Rust String, &str or Vec<u8> is a    *)
(* sequence of them.  Option<T> is a sequence of length 0 (None) or 1      *)
(* (Some).                                                                 *)
(***************************************************************************)
EXTENDS Naturals, Integers, Sequences, FiniteSets, TLC

VARIABLES
    pc,            \* per connection: position of handle_request's loop
    inbuf,         \* per connection: bytes sent by the client, not yet consumed
    clientEof,     \* per connection: the client has shut down its write side
    out,           \* per connection: bytes the server has put on the wire
    request,       \* per connection: Option<Request> of the current iteration
    should_close,  \* per connection: the local of handle_request
    response,      \* per connection: Option<Response> returned by route
    file,          \* per connection: Option<open file> held by handle_file_get
    result,        \* per connection: what handle_request returned, and why
    files,         \* the served directory: entry name -> directory entry
    fsLog,         \* every filesystem call made so far, in order
    served,        \* per connection: one record per request parsed so far
    budget,        \* client messages that may still be sent
    vName,         \* input of the path validator under test
    vResult,       \* its result
    vDone,         \* TRUE once the validator has been applied
    sResp,         \* the Response object given to the serializer under test
    sRaw,          \* what build_raw returned for it
    sHead,         \* what build_headers_raw returned for it
    sDone,         \* TRUE once the serializer has been applied
    pInput,        \* the bytes a peer has sent to the parser under test
    pEof,          \* that peer has closed its side
    pResult,       \* what the parser returned for them (from_reader)
    pStream,       \* what the one-shot parser returned for them (from_stream)
    pDone,         \* TRUE once the parser has been applied
    hRequest,      \* the Request whose headers are looked up
    hName,         \* the name looked up
    hValue,        \* what header_value returned
    hDone          \* TRUE once header_value has been applied

vars == <<pc, inbuf, clientEof, out, request, should_close, response, file,
          result, files, fsLog, served, budget, vName, vResult, vDone,
          sResp, sRaw, sHead, sDone, pInput, pEof, pResult, pStream, pDone,
          hRequest, hName, hValue, hDone>>

connVars == <<pc, inbuf, clientEof, out, request, should_close, response, file,
              result, files, fsLog, served, budget>>

validatorVars == <<vName, vResult, vDone>>

serializerVars == <<sResp, sRaw, sHead, sDone>>

parserVars == <<pInput, pEof, pResult, pStream, pDone>>

lookupVars == <<hRequest, hName, hValue, hDone>>

\* what the connection loop never touches
harnessVars == <<validatorVars, serializerVars, parserVars, lookupVars>>

-----------------------------------------------------------------------------
(* Bounds *)

\* longest filename the validator is applied to
MaxNameLen == 4

\* number of messages the clients send in one run
MaxSends == 2

\* longest string asked of the echo route
MaxEchoLen == 2

\* most headers a caller gives a Response before it is serialized
MaxHeaders == 2

\* most bytes a peer sends after the start of its input
MaxTail == 3

-----------------------------------------------------------------------------
(* Option *)

None == <<>>

Some(x) == <<x>>

is_some(o) == Len(o) = 1

unwrap(o) == o[1]

\* F applied to the value of v: v is evaluated once, however often F uses it
Let(v, F(_)) == CHOOSE y \in {F(x) : x \in {v}} : TRUE

\* the k-th smallest element of a finite set of numbers
Nth(S, k) == CHOOSE i \in S : Cardinality({j \in S : j <= i}) = k

-----------------------------------------------------------------------------
(* Bytes and strings *)

CR == "\r"

LF == "\n"

LowerOf ==
    "A" :> "a" @@ "B" :> "b" @@ "C" :> "c" @@ "D" :> "d" @@ "E" :> "e" @@
    "F" :> "f" @@ "G" :> "g" @@ "H" :> "h" @@ "I" :> "i" @@ "J" :> "j" @@
    "K" :> "k" @@ "L" :> "l" @@ "M" :> "m" @@ "N" :> "n" @@ "O" :> "o" @@
    "P" :> "p" @@ "Q" :> "q" @@ "R" :> "r" @@ "S" :> "s" @@ "T" :> "t" @@
    "U" :> "u" @@ "V" :> "v" @@ "W" :> "w" @@ "X" :> "x" @@ "Y" :> "y" @@
    "Z" :> "z"

to_ascii_lowercase(ch) == IF ch \in DOMAIN LowerOf THEN LowerOf[ch] ELSE ch

\* str::eq_ignore_ascii_case
eq_ignore_ascii_case(a, b) ==
    /\ Len(a) = Len(b)
    /\ \A i \in 1..Len(a) : to_ascii_lowercase(a[i]) = to_ascii_lowercase(b[i])

\* str::starts_with
starts_with(s, prefix) ==
    /\ Len(s) >= Len(prefix)
    /\ SubSeq(s, 1, Len(prefix)) = prefix

\* str::strip_prefix : Option<&str>
strip_prefix(s, prefix) ==
    IF starts_with(s, prefix) THEN Some(SubSeq(s, Len(prefix) + 1, Len(s))) ELSE None

\* index of the first occurrence of byte ch in s, 0 when there is none
find(str, ch) ==
    Let(str, LAMBDA s :
        Let({i \in 1..Len(s) : s[i] = ch}, LAMBDA hits :
            IF hits = {} THEN 0 ELSE Nth(hits, 1)))

\* str::split(ch) : the pieces between occurrences of ch, empty pieces kept
split(str, ch) ==
    Let(str, LAMBDA s :
        Let({i \in 1..Len(s) : s[i] = ch}, LAMBDA seps :
            [k \in 1..(Cardinality(seps) + 1) |->
                SubSeq(s,
                       IF k = 1 THEN 1 ELSE Nth(seps, k - 1) + 1,
                       IF k = Cardinality(seps) + 1 THEN Len(s) ELSE Nth(seps, k) - 1)]))

\* all byte strings over alphabet of length at most n
RECURSIVE Strings(_, _)
Strings(alphabet, n) ==
    IF n = 0 THEN {<<>>}
    ELSE LET shorter == Strings(alphabet, n - 1)
         IN  shorter \cup {s \o <<ch>> : s \in shorter, ch \in alphabet}

-----------------------------------------------------------------------------
(* Path validator: handlers.rs, is_valid_single_filename *)

\* std::path::Path::components on Unix: a leading "/" is RootDir, empty
\* pieces and "." pieces are dropped except a leading "." of a relative
\* path (CurDir), ".." is ParentDir, anything else is Normal.
components(name) ==
    Let(split(name, "/"), LAMBDA pieces :
        LET has_root == Len(pieces) > 1 /\ pieces[1] = <<>>
            kind(i)  == IF pieces[i] = <<>> THEN "Skip"
                        ELSE IF pieces[i] = <<".">>
                             THEN (IF i = 1 THEN "CurDir" ELSE "Skip")
                        ELSE IF pieces[i] = <<".", ".">> THEN "ParentDir"
                        ELSE "Normal"
            kept     == SelectSeq([i \in 1..Len(pieces) |->
                                      [kind |-> kind(i), name |-> pieces[i]]],
                                  LAMBDA c : c.kind # "Skip")
        IN  (IF has_root THEN <<[kind |-> "RootDir", name |-> <<"/">>]>> ELSE <<>>)
            \o kept)

\* a plausible slip: only the first component is looked at
is_valid_single_filename_first_only(name) ==
    Let(components(name), LAMBDA comps :
        Len(comps) >= 1 /\ comps[1].kind = "Normal")

is_valid_single_filename(name) ==
    Let(components(name), LAMBDA comps :
        LET is_normal == Len(comps) >= 1 /\ comps[1].kind = "Normal"
            is_single == Len(comps) <= 1
        IN  is_normal /\ is_single)

-----------------------------------------------------------------------------
(* Request parser: request.rs *)

\* char::is_whitespace, restricted to the bytes the model uses
WhiteSpace == {" ", "\t", CR, LF}

\* usize::to_string / u16::to_string
DigitChar == <<"0", "1", "2", "3", "4", "5", "6", "7", "8", "9">>

RECURSIVE to_string(_)
to_string(num) ==
    Let(num, LAMBDA n :
        IF n < 10 THEN <<DigitChar[n + 1]>>
        ELSE to_string(n \div 10) \o <<DigitChar[(n % 10) + 1]>>)

DigitVal ==
    "0" :> 0 @@ "1" :> 1 @@ "2" :> 2 @@ "3" :> 3 @@ "4" :> 4 @@
    "5" :> 5 @@ "6" :> 6 @@ "7" :> 7 @@ "8" :> 8 @@ "9" :> 9

RECURSIVE digits_value(_)
digits_value(str) ==
    Let(str, LAMBDA s :
        IF s = <<>> THEN 0
        ELSE 10 * digits_value(SubSeq(s, 1, Len(s) - 1)) + DigitVal[s[Len(s)]])

\* str::parse::<usize> : Option<usize>; an optional "+" and at least one
\* decimal digit, nothing else
parse_usize(str) ==
    Let(str, LAMBDA s :
        Let(IF Len(s) > 0 /\ s[1] = "+" THEN Tail(s) ELSE s, LAMBDA digits :
            IF digits # <<>> /\ \A i \in 1..Len(digits) : digits[i] \in DOMAIN DigitVal
            THEN Some(digits_value(digits))
            ELSE None))

\* the bytes of s from the first to the last one outside strip; <<>> when
\* there is none
Inner(s, strip, from_start, from_end) ==
    Let({i \in 1..Len(s) : s[i] \notin strip}, LAMBDA keep :
        IF keep = {} THEN <<>>
        ELSE SubSeq(s,
                    IF from_start THEN Nth(keep, 1) ELSE 1,
                    IF from_end THEN Nth(keep, Cardinality(keep)) ELSE Len(s)))

\* a plausible slip: only the line feed is stripped
trim_line_ending_line_feed_only(str) ==
    Let(str, LAMBDA s : Inner(s, {LF}, FALSE, TRUE))

\* str::trim_end_matches(['\r', '\n'])
trim_line_ending(str) ==
    Let(str, LAMBDA s : Inner(s, {CR, LF}, FALSE, TRUE))

\* str::trim
trim(str) ==
    Let(str, LAMBDA s : Inner(s, WhiteSpace, TRUE, TRUE))

\* str::split_whitespace().collect::<Vec<_>>() : the maximal runs of
\* non-whitespace bytes, in order
split_whitespace(str) ==
    Let(str, LAMBDA s :
        Let({i \in 1..Len(s) :
                s[i] \notin WhiteSpace /\ (i = 1 \/ s[i - 1] \in WhiteSpace)},
            LAMBDA starts :
        Let({i \in 1..Len(s) :
                s[i] \notin WhiteSpace /\ (i = Len(s) \/ s[i + 1] \in WhiteSpace)},
            LAMBDA ends :
                [k \in 1..Cardinality(starts) |->
                    SubSeq(s, Nth(starts, k), Nth(ends, k))])))

\* str::split_once(':') : Option<(&str, &str)>
split_once(str, ch) ==
    Let(str, LAMBDA s :
        Let(find(s, ch), LAMBDA i :
            IF i = 0 THEN None
            ELSE Some(<<SubSeq(s, 1, i - 1), SubSeq(s, i + 1, Len(s))>>)))

\* AsyncBufReadExt::read_line on a stream holding buf, whose peer has
\* (eof) or has not closed: the bytes up to and including the first "\n",
\* or all that is left at EOF; it waits while neither is there.
read_line(buffer, eof) ==
    Let(buffer, LAMBDA buf :
        Let(find(buf, LF), LAMBDA i :
            IF i > 0 THEN [status |-> "Ok", line |-> SubSeq(buf, 1, i),
                           rest |-> SubSeq(buf, i + 1, Len(buf))]
            ELSE IF eof THEN [status |-> "Ok", line |-> buf, rest |-> <<>>]
            ELSE [status |-> "Blocked", line |-> <<>>, rest |-> buf]))

\* a plausible slip: tokens after the third are ignored
parse_request_line_at_least_three(line) ==
    Let(split_whitespace(trim_line_ending(line)), LAMBDA tokens :
        IF Len(tokens) >= 3
        THEN [status |-> "Ok", method |-> tokens[1], path |-> tokens[2],
              http_version |-> tokens[3]]
        ELSE [status |-> "Err", error |-> "invalid request line"])

\* the match of read_request_line on the trimmed line
parse_request_line(line) ==
    Let(split_whitespace(trim_line_ending(line)), LAMBDA tokens :
        IF Len(tokens) = 3
        THEN [status |-> "Ok", method |-> tokens[1], path |-> tokens[2],
              http_version |-> tokens[3]]
        ELSE [status |-> "Err", error |-> "invalid request line"])

\* a plausible slip: the line is split at its last ":"
parse_header_line_last_colon(trimmed) ==
    Let({i \in 1..Len(trimmed) : trimmed[i] = ":"}, LAMBDA colons :
        IF colons = {} THEN None
        ELSE Let(Nth(colons, Cardinality(colons)), LAMBDA i :
                 Some(<<trim(SubSeq(trimmed, 1, i - 1)),
                        trim(SubSeq(trimmed, i + 1, Len(trimmed)))>>)))

\* one header line: the pair it holds, split at the first ":"
parse_header_line(trimmed) ==
    Let(split_once(trimmed, ":"), LAMBDA kv :
        IF is_some(kv) THEN Some(<<trim(unwrap(kv)[1]), trim(unwrap(kv)[2])>>)
        ELSE None)

\* a plausible slip: the end of the input before the blank line is an error
RECURSIVE read_headers_eof_is_error(_, _, _)
read_headers_eof_is_error(buf, eof, headers) ==
    Let(read_line(buf, eof), LAMBDA r :
        IF r.status = "Blocked"
        THEN [status |-> "Blocked", headers |-> headers, rest |-> r.rest]
        ELSE IF Len(r.line) = 0
        THEN [status |-> "Err", headers |-> headers, rest |-> r.rest,
              error |-> "reading header line"]
        ELSE Let(trim_line_ending(r.line), LAMBDA trimmed :
                 IF trimmed = <<>>
                 THEN [status |-> "Ok", headers |-> headers, rest |-> r.rest]
                 ELSE Let(parse_header_line(trimmed), LAMBDA kv :
                          IF ~is_some(kv)
                          THEN [status |-> "Err", headers |-> headers, rest |-> r.rest,
                                error |-> "malformed header line"]
                          ELSE Let(Append(headers, unwrap(kv)), LAMBDA hs :
                                   read_headers_eof_is_error(r.rest, eof, hs)))))

\* Request::read_headers
RECURSIVE read_headers(_, _, _)
read_headers(buf, eof, headers) ==
    Let(read_line(buf, eof), LAMBDA r :
        IF r.status = "Blocked"
        THEN [status |-> "Blocked", headers |-> headers, rest |-> r.rest]
        ELSE IF Len(r.line) = 0
        THEN [status |-> "Ok", headers |-> headers, rest |-> r.rest]
        ELSE Let(trim_line_ending(r.line), LAMBDA trimmed :
                 IF trimmed = <<>>
                 THEN [status |-> "Ok", headers |-> headers, rest |-> r.rest]
                 ELSE Let(parse_header_line(trimmed), LAMBDA kv :
                          IF ~is_some(kv)
                          THEN [status |-> "Err", headers |-> headers, rest |-> r.rest,
                                error |-> "malformed header line"]
                          ELSE Let(Append(headers, unwrap(kv)), LAMBDA hs :
                                   read_headers(r.rest, eof, hs)))))

\* a plausible slip: the iterator is searched from its end
header_value_last_match(headers, name) ==
    Let({i \in 1..Len(headers) : eq_ignore_ascii_case(headers[i][1], name)},
        LAMBDA hits : IF hits = {} THEN None
                      ELSE Some(headers[Nth(hits, Cardinality(hits))][2]))

\* Request::header_value : Option<&str>, the first header whose name matches
header_value(headers, name) ==
    Let({i \in 1..Len(headers) : eq_ignore_ascii_case(headers[i][1], name)},
        LAMBDA hits : IF hits = {} THEN None ELSE Some(headers[Nth(hits, 1)][2]))

Str_ContentLength ==
    <<"C", "o", "n", "t", "e", "n", "t", "-", "L", "e", "n", "g", "t", "h">>

\* a plausible slip: the body is copied out of the buffer but not consumed
read_body_not_consumed(headers, buf, eof) ==
    Let(header_value(headers, Str_ContentLength), LAMBDA cl :
        Let(IF is_some(cl) THEN parse_usize(unwrap(cl)) ELSE None, LAMBDA n :
            IF is_some(cl) /\ ~is_some(n)
            THEN [status |-> "Err", error |-> "parsing Content-Length header"]
            ELSE IF is_some(n) /\ unwrap(n) > 0
            THEN (IF Len(buf) >= unwrap(n)
                  THEN [status |-> "Ok", body |-> Some(SubSeq(buf, 1, unwrap(n))),
                        rest |-> buf]
                  ELSE IF eof
                  THEN [status |-> "Err", error |-> "reading request body"]
                  ELSE [status |-> "Blocked"])
            ELSE [status |-> "Ok", body |-> None, rest |-> buf]))

\* a plausible slip: a Content-Length of 0 is not filtered out and yields
\* an empty body instead of none
read_body_zero_is_some(headers, buf, eof) ==
    Let(header_value(headers, Str_ContentLength), LAMBDA cl :
        Let(IF is_some(cl) THEN parse_usize(unwrap(cl)) ELSE None, LAMBDA n :
            IF is_some(cl) /\ ~is_some(n)
            THEN [status |-> "Err", error |-> "parsing Content-Length header"]
            ELSE IF is_some(n)
            THEN (IF Len(buf) >= unwrap(n)
                  THEN [status |-> "Ok", body |-> Some(SubSeq(buf, 1, unwrap(n))),
                        rest |-> SubSeq(buf, unwrap(n) + 1, Len(buf))]
                  ELSE IF eof
                  THEN [status |-> "Err", error |-> "reading request body"]
                  ELSE [status |-> "Blocked"])
            ELSE [status |-> "Ok", body |-> None, rest |-> buf]))

\* a plausible slip: read instead of read_exact, so that a close before
\* the last byte leaves a shorter body
read_body_short_at_eof(headers, buf, eof) ==
    Let(header_value(headers, Str_ContentLength), LAMBDA cl :
        Let(IF is_some(cl) THEN parse_usize(unwrap(cl)) ELSE None, LAMBDA n :
            IF is_some(cl) /\ ~is_some(n)
            THEN [status |-> "Err", error |-> "parsing Content-Length header"]
            ELSE IF is_some(n) /\ unwrap(n) > 0
            THEN (IF Len(buf) >= unwrap(n)
                  THEN [status |-> "Ok", body |-> Some(SubSeq(buf, 1, unwrap(n))),
                        rest |-> SubSeq(buf, unwrap(n) + 1, Len(buf))]
                  ELSE IF eof
                  THEN [status |-> "Ok", body |-> Some(buf), rest |-> <<>>]
                  ELSE [status |-> "Blocked"])
            ELSE [status |-> "Ok", body |-> None, rest |-> buf]))

\* the body step of the parser: Content-Length lookup, parse, read_exact
read_body(headers, buf, eof) ==
    Let(header_value(headers, Str_ContentLength), LAMBDA cl :
        Let(IF is_some(cl) THEN parse_usize(unwrap(cl)) ELSE None, LAMBDA n :
            IF is_some(cl) /\ ~is_some(n)
            THEN [status |-> "Err", error |-> "parsing Content-Length header"]
            ELSE IF is_some(n) /\ unwrap(n) > 0
            THEN (IF Len(buf) >= unwrap(n)
                  THEN [status |-> "Ok", body |-> Some(SubSeq(buf, 1, unwrap(n))),
                        rest |-> SubSeq(buf, unwrap(n) + 1, Len(buf))]
                  ELSE IF eof
                  THEN [status |-> "Err", error |-> "reading request body"]
                  ELSE [status |-> "Blocked"])
            ELSE [status |-> "Ok", body |-> None, rest |-> buf]))

\* a plausible slip: the end of the connection is looked for after the
\* terminator has been stripped, so that a blank line counts as one
from_stream_blank_line_is_eof(buffer, eof) ==
    Let(read_line(buffer, eof), LAMBDA l :
        IF l.status = "Blocked" THEN [status |-> "Blocked"]
        ELSE IF Len(trim_line_ending(l.line)) = 0
        THEN [status |-> "Err", error |-> "connection closed before request line"]
        ELSE Let(parse_request_line(l.line), LAMBDA rl :
          IF rl.status = "Err" THEN [status |-> "Err", error |-> rl.error]
          ELSE Let(read_headers(l.rest, eof, <<>>), LAMBDA h :
            IF h.status = "Blocked" THEN [status |-> "Blocked"]
            ELSE IF h.status = "Err" THEN [status |-> "Err", error |-> h.error]
            ELSE Let(read_body(h.headers, h.rest, eof), LAMBDA b :
              IF b.status = "Blocked" THEN [status |-> "Blocked"]
              ELSE IF b.status = "Err" THEN [status |-> "Err", error |-> b.error]
              ELSE [status  |-> "Ok",
                    request |-> [method       |-> rl.method,
                                 path         |-> rl.path,
                                 http_version |-> rl.http_version,
                                 headers      |-> h.headers,
                                 body         |-> b.body]]))))

\* Request::from_stream : Result<(Request, TcpStream)> on a stream that
\* holds buffer and whose peer has (eof) or has not closed; "Blocked" means
\* a read is still waiting for the peer.
from_stream(buffer, eof) ==
    Let(read_line(buffer, eof), LAMBDA l :
        IF l.status = "Blocked" THEN [status |-> "Blocked"]
        ELSE IF Len(l.line) = 0
        THEN [status |-> "Err", error |-> "connection closed before request line"]
        ELSE Let(parse_request_line(l.line), LAMBDA rl :
          IF rl.status = "Err" THEN [status |-> "Err", error |-> rl.error]
          ELSE Let(read_headers(l.rest, eof, <<>>), LAMBDA h :
            IF h.status = "Blocked" THEN [status |-> "Blocked"]
            ELSE IF h.status = "Err" THEN [status |-> "Err", error |-> h.error]
            ELSE Let(read_body(h.headers, h.rest, eof), LAMBDA b :
              IF b.status = "Blocked" THEN [status |-> "Blocked"]
              ELSE IF b.status = "Err" THEN [status |-> "Err", error |-> b.error]
              ELSE [status  |-> "Ok",
                    request |-> [method       |-> rl.method,
                                 path         |-> rl.path,
                                 http_version |-> rl.http_version,
                                 headers      |-> h.headers,
                                 body         |-> b.body]]))))

\* Request::from_reader : Result<Option<Request>>.  "None" is the clean EOF
\* (zero bytes read where a request line should start); "Blocked" means the
\* read is still waiting for the client.
from_reader(buffer, eof) ==
    Let(read_line(buffer, eof), LAMBDA l :
        IF l.status = "Blocked" THEN [status |-> "Blocked"]
        ELSE IF Len(l.line) = 0 THEN [status |-> "None"]
        ELSE Let(parse_request_line(l.line), LAMBDA rl :
          IF rl.status = "Err" THEN [status |-> "Err", error |-> rl.error]
          ELSE Let(read_headers(l.rest, eof, <<>>), LAMBDA h :
            IF h.status = "Blocked" THEN [status |-> "Blocked"]
            ELSE IF h.status = "Err" THEN [status |-> "Err", error |-> h.error]
            ELSE Let(read_body(h.headers, h.rest, eof), LAMBDA b :
              IF b.status = "Blocked" THEN [status |-> "Blocked"]
              ELSE IF b.status = "Err" THEN [status |-> "Err", error |-> b.error]
              ELSE [status  |-> "Some",
                    request |-> [method       |-> rl.method,
                                 path         |-> rl.path,
                                 http_version |-> rl.http_version,
                                 headers      |-> h.headers,
                                 body         |-> b.body],
                    rest    |-> b.rest]))))

-----------------------------------------------------------------------------
(* Response and its serializer: response.rs *)

Str_CRLF == <<"\r", "\n">>

Str_ContentType == <<"C", "o", "n", "t", "e", "n", "t", "-", "T", "y", "p", "e">>

Str_TextPlain == <<"t", "e", "x", "t", "/", "p", "l", "a", "i", "n">>

Str_OctetStream == <<"a", "p", "p", "l", "i", "c", "a", "t", "i", "o", "n", "/", "o", "c", "t", "e", "t", "-", "s", "t", "r", "e", "a", "m">>

\* Response::new
new(status_code, reason) ==
    [status_code |-> status_code, reason |-> reason, headers |-> <<>>,
     body |-> <<>>, status_only |-> FALSE]

\* Response::status_only
status_only(status_code, reason) ==
    [status_code |-> status_code, reason |-> reason, headers |-> <<>>,
     body |-> <<>>, status_only |-> TRUE]

\* Response::header
header(r, key, value) == [r EXCEPT !.headers = Append(@, <<key, value>>)]

\* Response::body_bytes
body_bytes(r, bytes) == [r EXCEPT !.body = bytes]

\* Response::ok_text
ok_text(body) == body_bytes(header(new(200, <<"O", "K">>), Str_ContentType, Str_TextPlain), body)

\* a plausible slip: the 404 is built as a status-only response
not_found_status_only == status_only(404, <<"N", "o", "t", " ", "F", "o", "u", "n", "d">>)

\* Response::not_found
not_found ==
    body_bytes(header(new(404, <<"N", "o", "t", " ", "F", "o", "u", "n", "d">>), Str_ContentType, Str_TextPlain),
               <<"N", "o", "t", " ", "F", "o", "u", "n", "d">>)

\* Response::created: 201 with no body
created == new(201, <<"C", "r", "e", "a", "t", "e", "d">>)

RECURSIVE write_header_lines(_)
write_header_lines(hs) ==
    Let(hs, LAMBDA headers :
        IF headers = <<>> THEN <<>>
        ELSE headers[1][1] \o <<":", " ">> \o headers[1][2] \o Str_CRLF
             \o write_header_lines(Tail(headers)))

\* a plausible slip: the injected Content-Length is written before the
\* caller's headers
write_head_length_first(resp, include_content_length) ==
    Let(resp, LAMBDA r :
        LET status_line == <<"H", "T", "T", "P", "/", "1", ".", "1", " ">>
                           \o to_string(r.status_code) \o <<" ">>
                           \o r.reason \o Str_CRLF
            has_content_length ==
                \E i \in 1..Len(r.headers) :
                    eq_ignore_ascii_case(r.headers[i][1],
                        <<"c", "o", "n", "t", "e", "n", "t", "-",
                          "l", "e", "n", "g", "t", "h">>)
        IN  IF r.status_only THEN status_line \o Str_CRLF
            ELSE status_line
                 \o (IF include_content_length /\ ~has_content_length
                     THEN Str_ContentLength \o <<":", " ">> \o to_string(Len(r.body))
                          \o Str_CRLF
                     ELSE <<>>)
                 \o write_header_lines(r.headers)
                 \o Str_CRLF)

\* a plausible slip: the caller's headers are not searched for a
\* Content-Length before one is injected
write_head_always_injects(resp, include_content_length) ==
    Let(resp, LAMBDA r :
        LET status_line == <<"H", "T", "T", "P", "/", "1", ".", "1", " ">>
                           \o to_string(r.status_code) \o <<" ">>
                           \o r.reason \o Str_CRLF
        IN  IF r.status_only THEN status_line \o Str_CRLF
            ELSE status_line
                 \o write_header_lines(r.headers)
                 \o (IF include_content_length
                     THEN Str_ContentLength \o <<":", " ">> \o to_string(Len(r.body))
                          \o Str_CRLF
                     ELSE <<>>)
                 \o Str_CRLF)

\* Response::write_head
write_head(resp, include_content_length) ==
    Let(resp, LAMBDA r :
        LET status_line == <<"H", "T", "T", "P", "/", "1", ".", "1", " ">>
                           \o to_string(r.status_code) \o <<" ">>
                           \o r.reason \o Str_CRLF
            has_content_length ==
                \E i \in 1..Len(r.headers) :
                    eq_ignore_ascii_case(r.headers[i][1],
                        <<"c", "o", "n", "t", "e", "n", "t", "-",
                          "l", "e", "n", "g", "t", "h">>)
        IN  IF r.status_only THEN status_line \o Str_CRLF
            ELSE status_line
                 \o write_header_lines(r.headers)
                 \o (IF include_content_length /\ ~has_content_length
                     THEN Str_ContentLength \o <<":", " ">> \o to_string(Len(r.body))
                          \o Str_CRLF
                     ELSE <<>>)
                 \o Str_CRLF)

\* a plausible slip: the body is appended whatever the kind of Response
build_raw_body_always(resp) ==
    Let(resp, LAMBDA r : write_head(r, TRUE) \o r.body)

\* Response::build_raw
build_raw(resp) ==
    Let(resp, LAMBDA r :
        write_head(r, TRUE) \o (IF r.status_only THEN <<>> ELSE r.body))

\* a plausible slip: the head is written without the injected
\* Content-Length
build_headers_raw_not_injecting(r) == write_head(r, FALSE)

\* Response::build_headers_raw
build_headers_raw(r) == write_head(r, TRUE)

-----------------------------------------------------------------------------
(* The served directory *)

\* the served directory's path (files_dir)
FilesDir == <<"/", "s", "r", "v">>

\* a plausible slip: the path is built by string concatenation
join_concat(base, name) == base \o name

\* PathBuf::join: an absolute argument replaces the base
join(base, name) ==
    IF Len(name) > 0 /\ name[1] = "/" THEN name
    ELSE IF Len(base) > 0 /\ base[Len(base)] = "/" THEN base \o name
    ELSE base \o <<"/">> \o name

\* Path resolution by the operating system: the entry of the served
\* directory that path names, and whether path demands a directory (it
\* ends in "/" or "/.").  inside is FALSE for every other path.
resolve(path) ==
    Let(components(path), LAMBDA comps :
    Let(components(FilesDir), LAMBDA base :
    Let(split(path, "/"), LAMBDA pieces :
        IF Len(comps) = Len(base) + 1
           /\ SubSeq(comps, 1, Len(base)) = base
           /\ comps[Len(comps)].kind = "Normal"
        THEN [inside |-> TRUE, entry |-> comps[Len(comps)].name,
              must_be_dir |-> pieces[Len(pieces)] \in {<<>>, <<".">>}]
        ELSE [inside |-> FALSE, entry |-> <<>>, must_be_dir |-> FALSE])))

\* tokio::fs::metadata : Option<Metadata> (None stands for any Err)
metadata(fs, path) ==
    Let(resolve(path), LAMBDA p :
        IF ~p.inside \/ p.entry \notin DOMAIN fs THEN None
        ELSE IF p.must_be_dir /\ fs[p.entry].kind # "dir" THEN None
        ELSE Some([is_file |-> fs[p.entry].kind = "file",
                   len     |-> Len(fs[p.entry].data)]))

\* a plausible slip: the file is opened for appending, not truncated
write_appends(fs, path, body) ==
    Let(resolve(path), LAMBDA p :
        IF ~p.inside \/ p.must_be_dir THEN None
        ELSE IF p.entry \in DOMAIN fs /\ fs[p.entry].kind = "dir" THEN None
        ELSE Some([n \in DOMAIN fs \cup {p.entry} |->
                     IF n # p.entry THEN fs[n]
                     ELSE [kind |-> "file",
                           data |-> (IF n \in DOMAIN fs THEN fs[n].data ELSE <<>>) \o body]]))

\* tokio::fs::write : the directory afterwards, or None for any Err
\* (the path names a directory, or demands one)
write(fs, path, body) ==
    Let(resolve(path), LAMBDA p :
        IF ~p.inside \/ p.must_be_dir THEN None
        ELSE IF p.entry \in DOMAIN fs /\ fs[p.entry].kind = "dir" THEN None
        ELSE Some([n \in DOMAIN fs \cup {p.entry} |->
                     IF n = p.entry THEN [kind |-> "file", data |-> body] ELSE fs[n]]))

call(op, path) == [op |-> op, path |-> path]

-----------------------------------------------------------------------------
(* Route handlers and router: handlers.rs *)

handle_root == ok_text(<<>>)

\* a plausible slip: the suffix is URL-decoded before it is echoed (as far
\* as this goes: the escape sign is dropped)
handle_echo_decoded(echoed) == ok_text(SelectSeq(echoed, LAMBDA b : b # "%"))

handle_echo(echoed) == ok_text(echoed)

\* a plausible slip: the header name is compared as it is spelled
handle_user_agent_exact_case(req) ==
    Let({i \in 1..Len(req.headers) : req.headers[i][1] = <<"U", "s", "e", "r", "-", "A", "g", "e", "n", "t">>},
        LAMBDA hits : IF hits = {} THEN not_found
                      ELSE ok_text(req.headers[Nth(hits, 1)][2]))

handle_user_agent(req) ==
    Let(header_value(req.headers, <<"U", "s", "e", "r", "-", "A", "g", "e", "n", "t">>),
        LAMBDA ua : IF is_some(ua) THEN ok_text(unwrap(ua)) ELSE not_found)

\* What a handler hands back to route once it has run up to its last
\* suspension point:
\*   kind "Some"   - Ok(Some(resp))
\*   kind "Stream" - handle_file_get has written head and holds the open file
\*   kind "Err"    - Err(..), propagated by `?`
\* together with the served directory afterwards and the filesystem calls made.
Returned(kind, resp, fs, calls) ==
    [kind |-> kind, resp |-> resp, files |-> fs, calls |-> calls]

\* a plausible slip: the handler sets no Content-Length and leaves it to
\* the serializer, which knows only the Response's empty body
handle_file_get_without_length(file_path, fs) ==
    Let(metadata(fs, file_path), LAMBDA meta :
        IF ~is_some(meta) \/ ~unwrap(meta).is_file
        THEN Returned("Some", not_found, fs, <<call("metadata", file_path)>>)
        ELSE Returned("Stream",
                      header(new(200, <<"O", "K">>), Str_ContentType, Str_OctetStream),
                      fs, <<call("metadata", file_path), call("open", file_path)>>))

\* a plausible slip: anything that exists is served, regular file or not
handle_file_get_any_kind(file_path, fs) ==
    Let(metadata(fs, file_path), LAMBDA meta :
        IF ~is_some(meta)
        THEN Returned("Some", not_found, fs, <<call("metadata", file_path)>>)
        ELSE Returned("Stream",
                      header(header(new(200, <<"O", "K">>), Str_ContentType, Str_OctetStream),
                             Str_ContentLength, to_string(unwrap(meta).len)),
                      fs, <<call("metadata", file_path), call("open", file_path)>>))

handle_file_get(file_path, fs) ==
    Let(metadata(fs, file_path), LAMBDA meta :
        IF ~is_some(meta) \/ ~unwrap(meta).is_file
        THEN Returned("Some", not_found, fs, <<call("metadata", file_path)>>)
        ELSE Returned("Stream",
                      header(header(new(200, <<"O", "K">>), Str_ContentType, Str_OctetStream),
                             Str_ContentLength, to_string(unwrap(meta).len)),
                      fs, <<call("metadata", file_path), call("open", file_path)>>))

\* a plausible slip: a request without a body writes nothing
handle_file_post_body_required(file_path, req, fs) ==
    IF ~is_some(req.body) THEN Returned("Some", created, fs, <<>>)
    ELSE Let(write(fs, file_path, unwrap(req.body)), LAMBDA written :
            IF is_some(written)
            THEN Returned("Some", created, unwrap(written), <<call("write", file_path)>>)
            ELSE Returned("Err", not_found, fs, <<call("write", file_path)>>))

\* a plausible slip: a failed write is answered with 404 like a failed
\* metadata call
handle_file_post_failure_is_404(file_path, req, fs) ==
    Let(IF is_some(req.body) THEN unwrap(req.body) ELSE <<>>, LAMBDA body :
        Let(write(fs, file_path, body), LAMBDA written :
            IF is_some(written)
            THEN Returned("Some", created, unwrap(written), <<call("write", file_path)>>)
            ELSE Returned("Some", not_found, fs, <<call("write", file_path)>>)))

handle_file_post(file_path, req, fs) ==
    Let(IF is_some(req.body) THEN unwrap(req.body) ELSE <<>>, LAMBDA body :
        Let(write(fs, file_path, body), LAMBDA written :
            IF is_some(written)
            THEN Returned("Some", created, unwrap(written), <<call("write", file_path)>>)
            ELSE Returned("Err", not_found, fs, <<call("write", file_path)>>)))

\* a plausible slip: the filename is not validated
handle_files_unvalidated(filename, req, fs) ==
    LET file_path == join(FilesDir, filename)
    IN  IF req.method = <<"G", "E", "T">> THEN handle_file_get(file_path, fs)
        ELSE IF req.method = <<"P", "O", "S", "T">> THEN handle_file_post(file_path, req, fs)
        ELSE Returned("Some", not_found, fs, <<>>)

\* a plausible slip: an invalid filename is reported as an error of the
\* handler instead of a 404
handle_files_invalid_name_is_error(filename, req, fs) ==
    IF ~is_valid_single_filename(filename)
    THEN Returned("Err", not_found, fs, <<>>)
    ELSE LET file_path == join(FilesDir, filename)
         IN  IF req.method = <<"G", "E", "T">> THEN handle_file_get(file_path, fs)
             ELSE IF req.method = <<"P", "O", "S", "T">> THEN handle_file_post(file_path, req, fs)
             ELSE Returned("Some", not_found, fs, <<>>)

\* a plausible slip: every method but GET is taken for a POST
handle_files_writes_unless_get(filename, req, fs) ==
    IF ~is_valid_single_filename(filename)
    THEN Returned("Some", not_found, fs, <<>>)
    ELSE LET file_path == join(FilesDir, filename)
         IN  IF req.method = <<"G", "E", "T">> THEN handle_file_get(file_path, fs)
             ELSE handle_file_post(file_path, req, fs)

handle_files(filename, req, fs) ==
    IF ~is_valid_single_filename(filename)
    THEN Returned("Some", not_found, fs, <<>>)
    ELSE LET file_path == join(FilesDir, filename)
         IN  IF req.method = <<"G", "E", "T">> THEN handle_file_get(file_path, fs)
             ELSE IF req.method = <<"P", "O", "S", "T">> THEN handle_file_post(file_path, req, fs)
             ELSE Returned("Some", not_found, fs, <<>>)

\* a plausible slip: the root route is matched as a prefix
route_root_by_prefix(req, fs) ==
    IF starts_with(req.path, <<"/">>) THEN Returned("Some", handle_root, fs, <<>>)
    ELSE Returned("Some", not_found, fs, <<>>)

route(req, fs) ==
    IF req.path = <<"/">> THEN Returned("Some", handle_root, fs, <<>>)
    ELSE IF is_some(strip_prefix(req.path, <<"/", "e", "c", "h", "o", "/">>))
    THEN Returned("Some", handle_echo(unwrap(strip_prefix(req.path, <<"/", "e", "c", "h", "o", "/">>))), fs, <<>>)
    ELSE IF starts_with(req.path, <<"/", "u", "s", "e", "r", "-", "a", "g", "e", "n", "t">>)
    THEN Returned("Some", handle_user_agent(req), fs, <<>>)
    ELSE IF is_some(strip_prefix(req.path, <<"/", "f", "i", "l", "e", "s", "/">>))
    THEN handle_files(unwrap(strip_prefix(req.path, <<"/", "f", "i", "l", "e", "s", "/">>)), req, fs)
    ELSE Returned("Some", not_found, fs, <<>>)

-----------------------------------------------------------------------------
(* Connection loop: handlers.rs, handle_request *)

Str_Connection == <<"C", "o", "n", "n", "e", "c", "t", "i", "o", "n">>

Str_close == <<"c", "l", "o", "s", "e">>

\* a plausible slip: the value is compared with == instead of
\* eq_ignore_ascii_case
should_close_of_case_sensitive(req) ==
    LET v == header_value(req.headers, Str_Connection)
    IN  is_some(v) /\ unwrap(v) = Str_close

\* a plausible slip: every Connection header is looked at, not the first
should_close_of_any_connection_header(req) ==
    \E i \in 1..Len(req.headers) :
        /\ eq_ignore_ascii_case(req.headers[i][1], Str_Connection)
        /\ eq_ignore_ascii_case(req.headers[i][2], Str_close)

\* let should_close = request.header_value("Connection")
\*                        .is_some_and(|v| v.eq_ignore_ascii_case("close"));
should_close_of(req) ==
    LET v == header_value(req.headers, Str_Connection)
    IN  is_some(v) /\ eq_ignore_ascii_case(unwrap(v), Str_close)

Running == [ret |-> "running", by |-> "none"]

\* a plausible slip: a clean EOF is surfaced as an error
after_parse_eof_is_error(status) ==
    IF status = "Some" THEN [pc |-> "DISPATCHING", result |-> Running]
    ELSE [pc |-> "CLOSED", result |-> [ret |-> "Err", by |-> "parse"]]

\* a plausible slip: a parse error ends the loop like a clean EOF
after_parse_error_swallowed(status) ==
    IF status = "Some" THEN [pc |-> "DISPATCHING", result |-> Running]
    ELSE [pc |-> "CLOSED", result |-> [ret |-> "Ok", by |-> "eof"]]

\* the match on Request::from_reader(..).await? at the top of the loop:
\* Some(req) goes on, None breaks and returns Ok(()), Err returns the error
after_parse(status) ==
    IF status = "Some" THEN [pc |-> "DISPATCHING", result |-> Running]
    ELSE IF status = "None"
    THEN [pc |-> "CLOSED", result |-> [ret |-> "Ok", by |-> "eof"]]
    ELSE [pc |-> "CLOSED", result |-> [ret |-> "Err", by |-> "parse"]]

\* a plausible slip: the next request is parsed while the response to the
\* current one is still to be written
can_parse_pipelined(c) == pc[c] \in {"AWAITING_REQUEST", "WRITE_RESPONSE"}

\* the loop is at Request::from_reader
can_parse(c) == pc[c] = "AWAITING_REQUEST"

\* a plausible slip: a 404 is written when the handler has already streamed
written_by_loop_always(resp) ==
    IF is_some(resp) THEN build_raw(unwrap(resp)) ELSE build_raw(not_found)

\* if let Some(resp) = response { resp.write_to(stream) }
written_by_loop(resp) ==
    IF is_some(resp) THEN build_raw(unwrap(resp)) ELSE <<>>

\* a plausible slip: the loop serves one request per connection
after_response_always_closes(close) ==
    [pc |-> "CLOSED", result |-> [ret |-> "Ok", by |-> "close"]]

\* if should_close { break; } at the bottom of the loop
after_response(close) ==
    IF close THEN [pc |-> "CLOSED", result |-> [ret |-> "Ok", by |-> "close"]]
    ELSE [pc |-> "AWAITING_REQUEST", result |-> Running]

\* a plausible slip: the loop goes on to the next request without writing
\* the Response the handler returned
after_route_skips_write(kind) ==
    IF kind = "Some" THEN [pc |-> "AWAITING_REQUEST", result |-> Running]
    ELSE IF kind = "Stream" THEN [pc |-> "STREAMING", result |-> Running]
    ELSE [pc |-> "CLOSED", result |-> [ret |-> "Err", by |-> "io"]]

\* let response = route(..).await?; as far as the handler's last suspension
after_route(kind) ==
    IF kind = "Some" THEN [pc |-> "WRITE_RESPONSE", result |-> Running]
    ELSE IF kind = "Stream" THEN [pc |-> "STREAMING", result |-> Running]
    ELSE [pc |-> "CLOSED", result |-> [ret |-> "Err", by |-> "io"]]

\* io::copy(&mut file, stream): the bytes of the open file, read to its end
copy(fs, entry) == fs[entry].data

\* The record kept of a request from the moment it is parsed: the request,
\* the served directory when it was dispatched, the filesystem calls made
\* and the bytes written for it, how often the loop wrote a Response and
\* how often a handler streamed one, and whether its handler failed.
Served(req, fs) ==
    [req |-> req, files |-> fs, calls |-> <<>>, wrote |-> <<>>,
     loop |-> 0, stream |-> 0, io |-> FALSE]

\* The client writes the bytes m to the connection.
ClientSend(c, m) ==
    /\ budget > 0
    /\ pc[c] # "CLOSED"
    /\ ~clientEof[c]
    /\ inbuf' = [inbuf EXCEPT ![c] = @ \o m]
    /\ budget' = budget - 1
    /\ UNCHANGED <<pc, clientEof, out, request, should_close, response, file,
                   result, files, fsLog, served>>
    /\ UNCHANGED harnessVars

\* The client shuts down its write side (client.shutdown()).
ClientShutdown(c) ==
    /\ pc[c] # "CLOSED"
    /\ ~clientEof[c]
    /\ clientEof' = [clientEof EXCEPT ![c] = TRUE]
    /\ UNCHANGED <<pc, inbuf, out, request, should_close, response, file,
                   result, files, fsLog, served, budget>>
    /\ UNCHANGED harnessVars

\* a plausible slip: a read that has waited long enough is given up and
\* the connection is closed
ParseRequest_with_timeout(c) ==
    /\ can_parse(c)
    /\ \E p \in {from_reader(inbuf[c], clientEof[c])} :
         LET next == IF p.status = "Blocked" THEN after_parse("None")
                     ELSE after_parse(p.status)
         IN
           /\ pc' = [pc EXCEPT ![c] = next.pc]
           /\ result' = [result EXCEPT ![c] = next.result]
           /\ IF p.status = "Some"
              THEN /\ request' = [request EXCEPT ![c] = Some(p.request)]
                   /\ inbuf' = [inbuf EXCEPT ![c] = p.rest]
                   /\ served' = [served EXCEPT ![c] = Append(@, Served(p.request, files))]
              ELSE UNCHANGED <<request, inbuf, served>>
    /\ UNCHANGED <<clientEof, out, should_close, response, file, files, fsLog, budget>>
    /\ UNCHANGED harnessVars

\* Request::from_reader at the top of the loop, once it can return.
ParseRequest(c) ==
    /\ can_parse(c)
    /\ \E p \in {from_reader(inbuf[c], clientEof[c])} :
         LET next == after_parse(p.status)
         IN
           /\ p.status # "Blocked"
           /\ pc' = [pc EXCEPT ![c] = next.pc]
           /\ result' = [result EXCEPT ![c] = next.result]
           /\ IF p.status = "Some"
              THEN /\ request' = [request EXCEPT ![c] = Some(p.request)]
                   /\ inbuf' = [inbuf EXCEPT ![c] = p.rest]
                   /\ served' = [served EXCEPT ![c] = Append(@, Served(p.request, files))]
              ELSE UNCHANGED <<request, inbuf, served>>
    /\ UNCHANGED <<clientEof, out, should_close, response, file, files, fsLog, budget>>
    /\ UNCHANGED harnessVars

\* should_close, then route(..) up to the handler's last suspension point:
\* every handler but a successful file GET has returned; that one has
\* read the metadata, opened the file and written the response head.
Route(c) ==
    /\ pc[c] = "DISPATCHING"
    /\ \E r \in {route(unwrap(request[c]), files)} :
         LET req  == unwrap(request[c])
             next == after_route(r.kind)
             n    == Len(served[c])
         IN
           /\ should_close' = [should_close EXCEPT ![c] = should_close_of(req)]
           /\ files' = r.files
           /\ fsLog' = fsLog \o r.calls
           /\ pc' = [pc EXCEPT ![c] = next.pc]
           /\ result' = [result EXCEPT ![c] = next.result]
           /\ response' = [response EXCEPT ![c] =
                             IF next.pc = "WRITE_RESPONSE" THEN Some(r.resp) ELSE None]
           /\ out' = [out EXCEPT ![c] =
                        IF next.pc = "STREAMING" THEN @ \o build_headers_raw(r.resp) ELSE @]
           /\ file' = [file EXCEPT ![c] =
                         IF next.pc = "STREAMING"
                         THEN Some(resolve(join(FilesDir,
                                  unwrap(strip_prefix(req.path, <<"/", "f", "i", "l", "e", "s", "/">>)))).entry)
                         ELSE None]
           /\ served' = [served EXCEPT
                           ![c][n].io = (next.result.ret = "Err"),
                           ![c][n].files = files,
                           ![c][n].calls = r.calls,
                           ![c][n].wrote =
                               IF next.pc = "STREAMING" THEN build_headers_raw(r.resp)
                               ELSE <<>>]
    /\ UNCHANGED <<inbuf, clientEof, request, budget>>
    /\ UNCHANGED harnessVars

\* handle_file_get from io::copy to its return of Ok(None).
StreamFile(c) ==
    /\ pc[c] = "STREAMING"
    /\ out' = [out EXCEPT ![c] = @ \o copy(files, unwrap(file[c]))]
    /\ fsLog' = Append(fsLog, call("read", join(FilesDir, unwrap(file[c]))))
    /\ file' = [file EXCEPT ![c] = None]
    /\ response' = [response EXCEPT ![c] = None]
    /\ served' = [served EXCEPT
                    ![c][Len(served[c])].stream = @ + 1,
                    ![c][Len(served[c])].wrote = @ \o copy(files, unwrap(file[c])),
                    ![c][Len(served[c])].calls =
                        Append(@, call("read", join(FilesDir, unwrap(file[c]))))]
    /\ pc' = [pc EXCEPT ![c] = "STREAMED"]
    /\ UNCHANGED <<inbuf, clientEof, request, should_close, result, files, budget>>
    /\ UNCHANGED harnessVars

\* The rest of the iteration once route has returned: the response, if one
\* was returned, is written and flushed; then the loop breaks or goes on.
FinishRequest(c) ==
    /\ pc[c] \in {"WRITE_RESPONSE", "STREAMED"}
    /\ LET next == after_response(should_close[c])
       IN  /\ out' = [out EXCEPT ![c] = @ \o written_by_loop(response[c])]
           /\ served' = [served EXCEPT
                           ![c][Len(served[c])].loop =
                               IF written_by_loop(response[c]) # <<>> THEN @ + 1 ELSE @,
                           ![c][Len(served[c])].wrote = @ \o written_by_loop(response[c])]
           /\ pc' = [pc EXCEPT ![c] = next.pc]
           /\ result' = [result EXCEPT ![c] = next.result]
    /\ response' = [response EXCEPT ![c] = None]
    /\ request' = [request EXCEPT ![c] = None]
    /\ UNCHANGED <<inbuf, clientEof, should_close, file, files, fsLog, budget>>
    /\ UNCHANGED harnessVars

-----------------------------------------------------------------------------
(* The clients' messages *)

\* well-formed requests
Req_Echo == <<"G", "E", "T", " ", "/", "e", "c", "h", "o", "/", "a", "b", " ", "H", "T", "T", "P", "/", "1", ".", "1", "\r", "\n", "H", "o", "s", "t", ":", " ", "t", "\r", "\n", "\r", "\n">>

Req_RootClose == <<"G", "E", "T", " ", "/", " ", "H", "T", "T", "P", "/", "1", ".", "1", "\r", "\n", "c", "o", "n", "n", "e", "c", "t", "i", "o", "n", ":", " ", "C", "L", "O", "S", "E", "\r", "\n", "\r", "\n">>

Req_UserAgentLf == <<"G", "E", "T", " ", "/", "u", "s", "e", "r", "-", "a", "g", "e", "n", "t", " ", "H", "T", "T", "P", "/", "1", ".", "1", "\n", "U", "s", "e", "r", "-", "A", "g", "e", "n", "t", ":", " ", "c", "/", "1", "\n", "\n">>

Req_PostFile == <<"P", "O", "S", "T", " ", "/", "f", "i", "l", "e", "s", "/", "f", " ", "H", "T", "T", "P", "/", "1", ".", "1", "\r", "\n", "C", "o", "n", "t", "e", "n", "t", "-", "L", "e", "n", "g", "t", "h", ":", " ", "2", "\r", "\n", "\r", "\n", "x", "y">>

Req_GetFile == <<"G", "E", "T", " ", "/", "f", "i", "l", "e", "s", "/", "f", " ", "H", "T", "T", "P", "/", "1", ".", "1", "\r", "\n", "\r", "\n">>

Req_GetFileClose == <<"G", "E", "T", " ", "/", "f", "i", "l", "e", "s", "/", "f", " ", "H", "T", "T", "P", "/", "1", ".", "1", "\r", "\n", "C", "o", "n", "n", "e", "c", "t", "i", "o", "n", ":", " ", "c", "l", "o", "s", "e", "\r", "\n", "\r", "\n">>

Req_PostDir == <<"P", "O", "S", "T", " ", "/", "f", "i", "l", "e", "s", "/", "d", " ", "H", "T", "T", "P", "/", "1", ".", "1", "\r", "\n", "C", "o", "n", "t", "e", "n", "t", "-", "L", "e", "n", "g", "t", "h", ":", " ", "1", "\r", "\n", "C", "o", "n", "n", "e", "c", "t", "i", "o", "n", ":", " ", "c", "l", "o", "s", "e", "\r", "\n", "\r", "\n", "z">>

Req_GetTraversal == <<"G", "E", "T", " ", "/", "f", "i", "l", "e", "s", "/", ".", ".", "/", "f", " ", "H", "T", "T", "P", "/", "1", ".", "1", "\r", "\n", "\r", "\n">>

Req_Unknown == <<"G", "E", "T", " ", "/", "n", "o", "p", "e", " ", "H", "T", "T", "P", "/", "1", ".", "1", "\r", "\n", "C", "o", "n", "n", "e", "c", "t", "i", "o", "n", ":", " ", "k", "e", "e", "p", "-", "a", "l", "i", "v", "e", "\r", "\n", "\r", "\n">>

\* malformed or incomplete input
Bad_RequestLine == <<"G", "E", "T", " ", "/", "\r", "\n", "\r", "\n">>

Bad_Header == <<"G", "E", "T", " ", "/", " ", "H", "T", "T", "P", "/", "1", ".", "1", "\r", "\n", "N", "o", "C", "o", "l", "o", "n", "\r", "\n", "\r", "\n">>

Bad_ContentLength == <<"P", "O", "S", "T", " ", "/", "f", "i", "l", "e", "s", "/", "f", " ", "H", "T", "T", "P", "/", "1", ".", "1", "\r", "\n", "C", "o", "n", "t", "e", "n", "t", "-", "L", "e", "n", "g", "t", "h", ":", " ", "x", "\r", "\n", "\r", "\n">>

Bad_ShortBody == <<"P", "O", "S", "T", " ", "/", "f", "i", "l", "e", "s", "/", "f", " ", "H", "T", "T", "P", "/", "1", ".", "1", "\r", "\n", "C", "o", "n", "t", "e", "n", "t", "-", "L", "e", "n", "g", "t", "h", ":", " ", "3", "\r", "\n", "\r", "\n", "q">>

Requests ==
    {Req_Echo, Req_RootClose, Req_UserAgentLf, Req_PostFile, Req_GetFile,
     Req_GetFileClose, Req_PostDir, Req_GetTraversal, Req_Unknown,
     Bad_RequestLine, Bad_Header, Bad_ContentLength, Bad_ShortBody}

\* the served directory when the server starts: a subdirectory d, and
\* either no file f or a file f of three bytes
Dir_d == <<"d">> :> [kind |-> "dir", data |-> <<>>]

Dir_d_f == Dir_d @@ (<<"f">> :> [kind |-> "file", data |-> <<"o", "l", "d">>])

InitialFiles == {Dir_d, Dir_d_f}

-----------------------------------------------------------------------------
(* Specification: one persistent connection (persistent_server) *)

InitConns(conns) ==
    /\ pc = [c \in conns |-> "AWAITING_REQUEST"]
    /\ inbuf = [c \in conns |-> <<>>]
    /\ clientEof = [c \in conns |-> FALSE]
    /\ out = [c \in conns |-> <<>>]
    /\ request = [c \in conns |-> None]
    /\ should_close = [c \in conns |-> FALSE]
    /\ response = [c \in conns |-> None]
    /\ file = [c \in conns |-> None]
    /\ result = [c \in conns |-> Running]
    /\ served = [c \in conns |-> <<>>]
    /\ fsLog = <<>>

InitValidatorIdle ==
    /\ vName = <<>>
    /\ vResult = FALSE
    /\ vDone = FALSE

InitSerializerIdle ==
    /\ sResp = new(200, <<"O", "K">>)
    /\ sRaw = <<>>
    /\ sHead = <<>>
    /\ sDone = FALSE

InitParserIdle ==
    /\ pInput = <<>>
    /\ pEof = FALSE
    /\ pResult = [status |-> "Blocked"]
    /\ pStream = [status |-> "Blocked"]
    /\ pDone = FALSE

InitLookupIdle ==
    /\ hRequest = [method |-> <<"G", "E", "T">>, path |-> <<"/">>,
                   http_version |-> <<"H", "T", "T", "P", "/", "1", ".", "1">>,
                   headers |-> <<>>, body |-> None]
    /\ hName = <<>>
    /\ hValue = None
    /\ hDone = FALSE

Init ==
    /\ InitConns({1})
    /\ files \in InitialFiles
    /\ budget = MaxSends
    /\ InitValidatorIdle
    /\ InitSerializerIdle
    /\ InitParserIdle
    /\ InitLookupIdle

Next ==
    \/ \E c \in DOMAIN pc, m \in Requests : ClientSend(c, m)
    \/ \E c \in DOMAIN pc : ClientShutdown(c)
    \/ \E c \in DOMAIN pc : ParseRequest(c)
    \/ \E c \in DOMAIN pc : Route(c)
    \/ \E c \in DOMAIN pc : StreamFile(c)
    \/ \E c \in DOMAIN pc : FinishRequest(c)

Spec == Init /\ [][Next]_vars

-----------------------------------------------------------------------------
(* Specification: the path validator applied to every short name *)

NameBytes == {"a", ".", "/"}

InitValidator ==
    /\ InitConns({})
    /\ files = Dir_d
    /\ budget = 0
    /\ vName \in Strings(NameBytes, MaxNameLen)
    /\ vResult = FALSE
    /\ vDone = FALSE
    /\ InitSerializerIdle
    /\ InitParserIdle
    /\ InitLookupIdle

Validate ==
    /\ ~vDone
    /\ vResult' = is_valid_single_filename(vName)
    /\ vDone' = TRUE
    /\ UNCHANGED <<vName>>
    /\ UNCHANGED connVars
    /\ UNCHANGED serializerVars
    /\ UNCHANGED <<parserVars, lookupVars>>

NextValidator == Validate

SpecValidator == InitValidator /\ [][NextValidator]_vars

-----------------------------------------------------------------------------
(* Specification: one request to a file route, for every short filename *)

Str_HttpVersion == <<"H", "T", "T", "P", "/", "1", ".", "1">>

Str_FilesPrefix == <<"/", "f", "i", "l", "e", "s", "/">>

\* GET /files/{name}
GetFile(name) ==
    <<"G", "E", "T", " ">> \o Str_FilesPrefix \o name \o <<" ">> \o Str_HttpVersion
    \o Str_CRLF \o Str_CRLF

\* POST /files/{name} with the body body
PostFile(name, body) ==
    <<"P", "O", "S", "T", " ">> \o Str_FilesPrefix \o name \o <<" ">> \o Str_HttpVersion
    \o Str_CRLF \o Str_ContentLength \o <<":", " ">> \o to_string(Len(body)) \o Str_CRLF
    \o Str_CRLF \o body

FileRequests ==
    {GetFile(name) : name \in Strings(NameBytes, MaxNameLen)}
    \cup {PostFile(name, <<"z">>) : name \in Strings(NameBytes, MaxNameLen)}

\* the served directory holds a subdirectory d, a file f and a file a
Dir_d_f_a == Dir_d_f @@ (<<"a">> :> [kind |-> "file", data |-> <<"A">>])

InitFiles ==
    /\ InitConns({1})
    /\ files = Dir_d_f_a
    /\ budget = 1
    /\ InitValidatorIdle
    /\ InitSerializerIdle
    /\ InitParserIdle
    /\ InitLookupIdle

NextFiles ==
    \/ \E c \in DOMAIN pc, m \in FileRequests : ClientSend(c, m)
    \/ \E c \in DOMAIN pc : ClientShutdown(c)
    \/ \E c \in DOMAIN pc : ParseRequest(c)
    \/ \E c \in DOMAIN pc : Route(c)
    \/ \E c \in DOMAIN pc : StreamFile(c)
    \/ \E c \in DOMAIN pc : FinishRequest(c)

SpecFiles == InitFiles /\ [][NextFiles]_vars

-----------------------------------------------------------------------------
(* Specification: a client that posts files and gets them back, one       *)
(* request at a time on one connection                                    *)

\* a file that exists when the server starts, and a name new to it that
\* has ".." inside its one component
RoundTripNames == {<<"f">>, <<"a", ".", ".", "b">>}

\* the contents posted: none, a letter, and bytes the parser treats as a
\* line ending
RoundTripBodies == {<<>>, <<"x">>, <<"\r", "\n">>}

RoundTripRequests ==
    {GetFile(name) : name \in RoundTripNames}
    \cup {PostFile(name, body) : name \in RoundTripNames, body \in RoundTripBodies}

\* The client writes a request and reads the response before it writes
\* the next one.
ClientRequest(c, m) ==
    /\ pc[c] = "AWAITING_REQUEST"
    /\ inbuf[c] = <<>>
    /\ ClientSend(c, m)

InitRoundTrip ==
    /\ InitConns({1})
    /\ files = Dir_d_f
    /\ budget = MaxSends + 1
    /\ InitValidatorIdle
    /\ InitSerializerIdle
    /\ InitParserIdle
    /\ InitLookupIdle

NextRoundTrip ==
    \/ \E c \in DOMAIN pc, m \in RoundTripRequests : ClientRequest(c, m)
    \/ \E c \in DOMAIN pc : ClientShutdown(c)
    \/ \E c \in DOMAIN pc : ParseRequest(c)
    \/ \E c \in DOMAIN pc : Route(c)
    \/ \E c \in DOMAIN pc : StreamFile(c)
    \/ \E c \in DOMAIN pc : FinishRequest(c)

SpecRoundTrip == InitRoundTrip /\ [][NextRoundTrip]_vars

-----------------------------------------------------------------------------
(* Specification: one request, for every route and some methods *)

\* paths at and around the four routes
RoutePaths ==
    {<<"/">>, <<"/", "/">>, <<"/", "x">>, <<"e", "c", "h", "o", "/">>,
     <<"/", "e", "c", "h", "o">>, <<"/", "e", "c", "h", "o", "/">>, <<"/", "e", "c", "h", "o", "/", "a">>, <<"/", "E", "c", "h", "o", "/", "a">>, <<"/", "e", "c", "h", "o", "/", "f", "i", "l", "e", "s", "/", "f">>,
     <<"/", "e", "c", "h", "o", "/", "u", "s", "e", "r", "-", "a", "g", "e", "n", "t">>,
     <<"/", "u", "s", "e", "r", "-", "a", "g", "e", "n", "t">>, <<"/", "u", "s", "e", "r", "-", "a", "g", "e", "n">>, <<"/", "u", "s", "e", "r", "-", "a", "g", "e", "n", "t", "s">>, <<"/", "u", "s", "e", "r", "-", "a", "g", "e", "n", "t", "/", "e", "c", "h", "o", "/">>,
     <<"/", "f", "i", "l", "e", "s">>, <<"/", "f", "i", "l", "e", "s", "/">>, <<"/", "f", "i", "l", "e", "s", "/", "f">>, <<"/", "f", "i", "l", "e", "s", "/", "d">>, <<"/", "f", "i", "l", "e", "s", "/", "n">>,
     <<"/", "f", "i", "l", "e", "s", "/", "e", "c", "h", "o", "/">>, <<"/", "f", "i", "l", "e", "s", "/", "u", "s", "e", "r", "-", "a", "g", "e", "n", "t">>, <<"/", "f", "i", "l", "e", "s", "/", "/">>}

RouteMethods == {<<"G", "E", "T">>, <<"P", "O", "S", "T">>, <<"P", "U", "T">>}

\* {method} {path} HTTP/1.1 with a User-Agent header and, if body is not
\* empty, a Content-Length header and the body
RequestOf(method, path, body) ==
    method \o <<" ">> \o path \o <<" ">> \o Str_HttpVersion \o Str_CRLF
    \o <<"U", "s", "e", "r", "-", "A", "g", "e", "n", "t", ":", " ", "u">> \o Str_CRLF
    \o (IF body = <<>> THEN <<>>
        ELSE Str_ContentLength \o <<":", " ">> \o to_string(Len(body)) \o Str_CRLF)
    \o Str_CRLF \o body

RouteRequests ==
    {RequestOf(method, path, IF method = <<"G", "E", "T">> THEN <<>> ELSE <<"z">>) :
        method \in RouteMethods, path \in RoutePaths}

InitRoutes ==
    /\ InitConns({1})
    /\ files = Dir_d_f
    /\ budget = 1
    /\ InitValidatorIdle
    /\ InitSerializerIdle
    /\ InitParserIdle
    /\ InitLookupIdle

NextRoutes ==
    \/ \E c \in DOMAIN pc, m \in RouteRequests : ClientSend(c, m)
    \/ \E c \in DOMAIN pc : ClientShutdown(c)
    \/ \E c \in DOMAIN pc : ParseRequest(c)
    \/ \E c \in DOMAIN pc : Route(c)
    \/ \E c \in DOMAIN pc : StreamFile(c)
    \/ \E c \in DOMAIN pc : FinishRequest(c)

SpecRoutes == InitRoutes /\ [][NextRoutes]_vars

-----------------------------------------------------------------------------

(* Specification: requests to `/` with several methods, with and without  *)
(* a body, an echo request and a file GET, sent back to back              *)

RootRequests ==
    {RequestOf(<<"G", "E", "T">>, <<"/">>, <<>>), RequestOf(<<"G", "E", "T">>, <<"/">>, <<"b">>),
     RequestOf(<<"P", "O", "S", "T">>, <<"/">>, <<"h", "i">>), RequestOf(<<"D", "E", "L", "E", "T", "E">>, <<"/">>, <<>>),
     Req_Echo, Req_GetFile}

InitRoot ==
    /\ InitConns({1})
    /\ files = Dir_d_f
    /\ budget = MaxSends
    /\ InitValidatorIdle
    /\ InitSerializerIdle
    /\ InitParserIdle
    /\ InitLookupIdle

NextRoot ==
    \/ \E c \in DOMAIN pc, m \in RootRequests : ClientSend(c, m)
    \/ \E c \in DOMAIN pc : ClientShutdown(c)
    \/ \E c \in DOMAIN pc : ParseRequest(c)
    \/ \E c \in DOMAIN pc : Route(c)
    \/ \E c \in DOMAIN pc : StreamFile(c)
    \/ \E c \in DOMAIN pc : FinishRequest(c)

SpecRoot == InitRoot /\ [][NextRoot]_vars

-----------------------------------------------------------------------------

(* Specification: one echo request, for every short string *)

\* a letter, an escape sign, a separator and a blank
EchoAlphabet == {"a", "%", "/", " "}

EchoStrings == Strings(EchoAlphabet, MaxEchoLen)

\* GET /echo/{s}
EchoRequest(s) ==
    <<"G", "E", "T", " ", "/", "e", "c", "h", "o", "/">> \o s \o <<" ">> \o Str_HttpVersion \o Str_CRLF \o Str_CRLF

InitEcho ==
    /\ InitConns({1})
    /\ files = Dir_d_f
    /\ budget = 1
    /\ InitValidatorIdle
    /\ InitSerializerIdle
    /\ InitParserIdle
    /\ InitLookupIdle

\* the file GET keeps the streaming step of the loop in play
NextEcho ==
    \/ \E c \in DOMAIN pc, m \in {EchoRequest(s) : s \in EchoStrings} \cup {Req_GetFile} :
          ClientSend(c, m)
    \/ \E c \in DOMAIN pc : ClientShutdown(c)
    \/ \E c \in DOMAIN pc : ParseRequest(c)
    \/ \E c \in DOMAIN pc : Route(c)
    \/ \E c \in DOMAIN pc : StreamFile(c)
    \/ \E c \in DOMAIN pc : FinishRequest(c)

SpecEcho == InitEcho /\ [][NextEcho]_vars

-----------------------------------------------------------------------------

(* Specification: requests to /user-agent with various headers *)

\* GET /user-agent with the header lines given
UserAgentRequest(header_lines) ==
    <<"G", "E", "T", " ", "/", "u", "s", "e", "r", "-", "a", "g", "e", "n", "t", " ", "H", "T", "T", "P", "/", "1", ".", "1", "\r", "\n">> \o header_lines \o Str_CRLF

UserAgentRequests ==
    {UserAgentRequest(<<"H", "o", "s", "t", ":", " ", "t", "\r", "\n">>),
     UserAgentRequest(<<>>),
     UserAgentRequest(<<"u", "s", "e", "r", "-", "a", "g", "e", "n", "t", ":", " ", "x", "\r", "\n">>),
     UserAgentRequest(<<"U", "S", "E", "R", "-", "A", "G", "E", "N", "T", ":", " ", " ", " ", "Y", " ", "\r", "\n">>),
     UserAgentRequest(<<"H", "o", "s", "t", ":", " ", "t", "\r", "\n", "U", "s", "e", "r", "-", "A", "g", "e", "n", "t", ":", " ", "a", "\r", "\n", "u", "s", "e", "r", "-", "a", "g", "e", "n", "t", ":", " ", "b", "\r", "\n">>),
     UserAgentRequest(<<"U", "s", "e", "r", "-", "A", "g", "e", "n", "t", ":", "\r", "\n">>),
     UserAgentRequest(<<"U", "s", "e", "r", "-", "A", "g", "e", "n", "t", ":", " ", "a", ":", "b", "\r", "\n">>),
     UserAgentRequest(<<"U", "s", "e", "r", "-", "A", "g", "e", "n", "t", "s", ":", " ", "q", "\r", "\n", "X", "-", "U", "s", "e", "r", "-", "A", "g", "e", "n", "t", ":", " ", "r", "\r", "\n">>),
     Req_GetFile}

InitUserAgent ==
    /\ InitConns({1})
    /\ files = Dir_d_f
    /\ budget = MaxSends
    /\ InitValidatorIdle
    /\ InitSerializerIdle
    /\ InitParserIdle
    /\ InitLookupIdle

NextUserAgent ==
    \/ \E c \in DOMAIN pc, m \in UserAgentRequests : ClientSend(c, m)
    \/ \E c \in DOMAIN pc : ClientShutdown(c)
    \/ \E c \in DOMAIN pc : ParseRequest(c)
    \/ \E c \in DOMAIN pc : Route(c)
    \/ \E c \in DOMAIN pc : StreamFile(c)
    \/ \E c \in DOMAIN pc : FinishRequest(c)

SpecUserAgent == InitUserAgent /\ [][NextUserAgent]_vars

-----------------------------------------------------------------------------

(* Specification: GET of files, directories and missing entries *)

\* the served directory of the file tests: an empty file, a text file, a
\* file of bytes that look like line ends and a header, and a directory
Dir_Get ==
    (<<"e">> :> [kind |-> "file", data |-> <<>>])
    @@ (<<"f">> :> [kind |-> "file", data |-> <<"o", "l", "d">>])
    @@ (<<"b">> :> [kind |-> "file", data |-> <<"\r", "\n", "\r", "\n", "A", ":">>])
    @@ Dir_d

GetNames == {<<"e">>, <<"f">>, <<"b">>, <<"d">>, <<"x">>, <<"d", "/">>, <<"f", "/">>, <<"x", "/">>, <<"d", "/", ".">>}

GetRequests == {GetFile(name) : name \in GetNames}

InitGet ==
    /\ InitConns({1})
    /\ files = Dir_Get
    /\ budget = MaxSends
    /\ InitValidatorIdle
    /\ InitSerializerIdle
    /\ InitParserIdle
    /\ InitLookupIdle

NextGet ==
    \/ \E c \in DOMAIN pc, m \in GetRequests : ClientSend(c, m)
    \/ \E c \in DOMAIN pc : ClientShutdown(c)
    \/ \E c \in DOMAIN pc : ParseRequest(c)
    \/ \E c \in DOMAIN pc : Route(c)
    \/ \E c \in DOMAIN pc : StreamFile(c)
    \/ \E c \in DOMAIN pc : FinishRequest(c)

SpecGet == InitGet /\ [][NextGet]_vars

-----------------------------------------------------------------------------

(* Specification: POST of files, then GET *)

\* POST /files/{name} without a Content-Length header
PostFileNoLength(name) ==
    <<"P", "O", "S", "T", " ", "/", "f", "i", "l", "e", "s", "/">> \o name \o <<" ", "H", "T", "T", "P", "/", "1", ".", "1", "\r", "\n", "H", "o", "s", "t", ":", " ", "t", "e", "s", "t", "\r", "\n", "\r", "\n">>

PostNames == {<<"f">>, <<"n">>, <<"d">>, <<"f", "/">>}

PostRequests ==
    {PostFile(name, body) : name \in PostNames, body \in {<<>>, <<"x", "y">>}}
    \cup {PostFileNoLength(name) : name \in PostNames}
    \cup {GetFile(<<"f">>), GetFile(<<"n">>)}

InitPost ==
    /\ InitConns({1})
    /\ files = Dir_d_f
    /\ budget = MaxSends
    /\ InitValidatorIdle
    /\ InitSerializerIdle
    /\ InitParserIdle
    /\ InitLookupIdle

NextPost ==
    \/ \E c \in DOMAIN pc, m \in PostRequests : ClientSend(c, m)
    \/ \E c \in DOMAIN pc : ClientShutdown(c)
    \/ \E c \in DOMAIN pc : ParseRequest(c)
    \/ \E c \in DOMAIN pc : Route(c)
    \/ \E c \in DOMAIN pc : StreamFile(c)
    \/ \E c \in DOMAIN pc : FinishRequest(c)

SpecPost == InitPost /\ [][NextPost]_vars

-----------------------------------------------------------------------------

(* Specification: Response objects built by a caller, then serialized *)

\* the Response objects a caller starts from
SerializerResponses ==
    {new(200, <<"O", "K">>), new(404, <<"N", "o", "t", " ", "F", "o", "u", "n", "d">>),
     status_only(204, <<"N", "o", " ", "C", "o", "n", "t", "e", "n", "t">>), status_only(404, <<"N", "o", "t", " ", "F", "o", "u", "n", "d">>)}

\* the headers a caller adds
SerializerHeaders ==
    {<<<<"C", "o", "n", "t", "e", "n", "t", "-", "T", "y", "p", "e">>, <<"t", "e", "x", "t", "/", "p", "l", "a", "i", "n">>>>, <<<<"X", "-", "A">>, <<"1">>>>, <<<<"x", "-", "a">>, <<"2">>>>,
     <<<<"C", "o", "n", "t", "e", "n", "t", "-", "L", "e", "n", "g", "t", "h">>, <<"5">>>>, <<<<"c", "o", "n", "t", "e", "n", "t", "-", "l", "e", "n", "g", "t", "h">>, <<"0">>>>}

\* the bodies a caller sets
SerializerBodies == {<<>>, <<"p", "a", "y", "l", "o", "a", "d">>, <<"0", "1", "2", "3", "4", "5", "6", "7", "8", "9", "\r", "\n">>}

InitSerializer ==
    /\ InitConns({})
    /\ files = Dir_d
    /\ budget = 0
    /\ InitValidatorIdle
    /\ sResp \in SerializerResponses
    /\ sRaw = <<>>
    /\ sHead = <<>>
    /\ sDone = FALSE
    /\ InitParserIdle
    /\ InitLookupIdle

\* r.header(key, value)
CallHeader(key, value) ==
    /\ ~sDone
    /\ Len(sResp.headers) < MaxHeaders
    /\ sResp' = header(sResp, key, value)
    /\ UNCHANGED <<sRaw, sHead, sDone>>
    /\ UNCHANGED connVars
    /\ UNCHANGED validatorVars
    /\ UNCHANGED <<parserVars, lookupVars>>

\* r.body_bytes(bytes)
CallBodyBytes(bytes) ==
    /\ ~sDone
    /\ sResp.body # bytes
    /\ sResp' = body_bytes(sResp, bytes)
    /\ UNCHANGED <<sRaw, sHead, sDone>>
    /\ UNCHANGED connVars
    /\ UNCHANGED validatorVars
    /\ UNCHANGED <<parserVars, lookupVars>>

\* r.build_raw() and r.build_headers_raw()
CallBuildRaw ==
    /\ ~sDone
    /\ sRaw' = build_raw(sResp)
    /\ sHead' = build_headers_raw(sResp)
    /\ sDone' = TRUE
    /\ UNCHANGED <<sResp>>
    /\ UNCHANGED connVars
    /\ UNCHANGED validatorVars
    /\ UNCHANGED <<parserVars, lookupVars>>

NextSerializer ==
    \/ \E h \in SerializerHeaders : CallHeader(h[1], h[2])
    \/ \E bytes \in SerializerBodies : CallBodyBytes(bytes)
    \/ CallBuildRaw

SpecSerializer == InitSerializer /\ [][NextSerializer]_vars

-----------------------------------------------------------------------------

(* Specification: header lookup on Requests with given headers *)

\* the pairs the looked-up Requests are made of
LookupPairs ==
    {<<<<"X", "-", "C", "u", "s", "t", "o", "m">>, <<"f", "i", "r", "s", "t">>>>, <<<<"x", "-", "c", "u", "s", "t", "o", "m">>, <<"s", "e", "c", "o", "n", "d">>>>,
     <<<<"C", "o", "n", "t", "e", "n", "t", "-", "T", "y", "p", "e">>, <<"t", "e", "x", "t", "/", "p", "l", "a", "i", "n">>>>, <<<<"X", "-", "C", "u", "s", "t", "o", "m", "s">>, <<"t", "h", "i", "r", "d">>>>}

\* the names looked up
LookupNames ==
    {<<"X", "-", "C", "u", "s", "t", "o", "m">>, <<"X", "-", "C", "U", "S", "T", "O", "M">>, <<"x", "-", "c", "u", "s", "t", "o", "m">>, <<"C", "o", "n", "t", "e", "n", "t", "-", "T", "y", "p", "e">>,
     <<"c", "o", "n", "t", "e", "n", "t", "-", "t", "y", "p", "e">>, <<"A", "u", "t", "h", "o", "r", "i", "z", "a", "t", "i", "o", "n">>, <<"X", "-", "C", "u", "s", "t", "o">>}

\* make_request_with_headers
make_request_with_headers(headers) ==
    [method |-> <<"G", "E", "T">>, path |-> <<"/">>, http_version |-> <<"H", "T", "T", "P", "/", "1", ".", "1">>,
     headers |-> headers, body |-> None]

InitLookup ==
    /\ InitConns({})
    /\ files = Dir_d
    /\ budget = 0
    /\ InitValidatorIdle
    /\ InitSerializerIdle
    /\ InitParserIdle
    /\ hRequest \in {make_request_with_headers(headers) :
                       headers \in UNION {[1..n -> LookupPairs] : n \in 0..MaxHeaders}}
    /\ hName = <<>>
    /\ hValue = None
    /\ hDone = FALSE

\* req.header_value(name)
CallHeaderValue(name) ==
    /\ ~hDone
    /\ hName' = name
    /\ hValue' = header_value(hRequest.headers, name)
    /\ hDone' = TRUE
    /\ UNCHANGED <<hRequest>>
    /\ UNCHANGED connVars
    /\ UNCHANGED <<validatorVars, serializerVars, parserVars>>

NextLookup == \E name \in LookupNames : CallHeaderValue(name)

SpecLookup == InitLookup /\ [][NextLookup]_vars

-----------------------------------------------------------------------------

(* Specification: the parser applied to the bytes of one peer *)

\* what the peer has sent when the parser is called
ParserPrefixes ==
    {<<>>,
     <<"G", "E", "T", " ", "/">>,
     <<"g", "E", "t", " ", "/", "A", "%", "2", "0", "b", " ", "h", "t", "t", "p", "/", "9">>,
     <<"G", "E", "T", " ", "/", " ", "H", "T", "T", "P", "/", "1", ".", "1", "\r", "\n", "X", "-", "A", ":", " ", "1", ":", "2", "\r", "\n", "x", "-", "a", ":", " ", " ", "3", " ", "\r", "\n">>,
     <<"P", "O", "S", "T", " ", "/", " ", "H", "T", "T", "P", "/", "1", ".", "1", "\r", "\n", "c", "o", "n", "t", "e", "n", "t", "-", "l", "e", "n", "g", "t", "h", ":", " ", "1", "\r", "\n", "C", "o", "n", "t", "e", "n", "t", "-", "L", "e", "n", "g", "t", "h", ":", " ", "0", "\r", "\n">>,
     <<"P", "O", "S", "T", " ", "/", " ", "H", "T", "T", "P", "/", "1", ".", "1", "\n", "C", "o", "n", "t", "e", "n", "t", "-", "L", "e", "n", "g", "t", "h", ":", " ", "0", "\n">>,
     <<"P", "O", "S", "T", " ", "/", " ", "H", "T", "T", "P", "/", "1", ".", "1", "\r", "\n", "C", "o", "n", "t", "e", "n", "t", "-", "L", "e", "n", "g", "t", "h", ":">>}

\* the bytes the peer sends after that, one at a time
TailBytes == {"a", "1", " ", ":", CR, LF}

InitParser ==
    /\ InitConns({})
    /\ files = Dir_d
    /\ budget = 0
    /\ InitValidatorIdle
    /\ InitSerializerIdle
    /\ InitLookupIdle
    /\ pInput \in ParserPrefixes
    /\ pEof = FALSE
    /\ pResult = [status |-> "Blocked"]
    /\ pStream = [status |-> "Blocked"]
    /\ pDone = FALSE

\* server.write_all(&[byte]) of the peer
PeerSends(byte) ==
    /\ ~pDone
    /\ ~pEof
    /\ \E start \in ParserPrefixes :
          /\ Len(pInput) >= Len(start)
          /\ SubSeq(pInput, 1, Len(start)) = start
          /\ Len(pInput) < Len(start) + MaxTail
    /\ pInput' = Append(pInput, byte)
    /\ UNCHANGED <<pEof, pResult, pStream, pDone>>
    /\ UNCHANGED connVars
    /\ UNCHANGED <<validatorVars, serializerVars, lookupVars>>

\* server.shutdown() of the peer
PeerShutsDown ==
    /\ ~pDone
    /\ ~pEof
    /\ pEof' = TRUE
    /\ UNCHANGED <<pInput, pResult, pStream, pDone>>
    /\ UNCHANGED connVars
    /\ UNCHANGED <<validatorVars, serializerVars, lookupVars>>

\* Request::from_reader(&mut reader, ..) returns, and so does
\* Request::from_stream(stream) given the same bytes
CallFromReader ==
    /\ ~pDone
    /\ \E parsed \in {from_reader(pInput, pEof)} :
          /\ parsed.status # "Blocked"
          /\ pResult' = parsed
    /\ pStream' = from_stream(pInput, pEof)
    /\ pDone' = TRUE
    /\ UNCHANGED <<pInput, pEof>>
    /\ UNCHANGED connVars
    /\ UNCHANGED <<validatorVars, serializerVars, lookupVars>>

NextParser ==
    \/ \E byte \in TailBytes : PeerSends(byte)
    \/ PeerShutsDown
    \/ CallFromReader

SpecParser == InitParser /\ [][NextParser]_vars

-----------------------------------------------------------------------------

(* Specification: a client that closes before the blank line *)

\* requests cut off while their headers are sent: after the request line,
\* after a header line, within a header line (after and before its colon);
\* among them one with Connection: close, one that announces a body and one
\* whose handler fails
CutRequests ==
    {<<"G", "E", "T", " ", "/", " ", "H", "T", "T", "P", "/", "1", ".", "1", "\r", "\n">>,
     <<"G", "E", "T", " ", "/", "e", "c", "h", "o", "/", "a", "b", " ", "H", "T", "T", "P", "/", "1", ".", "1", "\r", "\n", "H", "o", "s", "t", ":", " ", "t", "\r", "\n">>,
     <<"G", "E", "T", " ", "/", "e", "c", "h", "o", "/", "a", "b", " ", "H", "T", "T", "P", "/", "1", ".", "1", "\r", "\n", "H", "o", "s", "t", ":", " ", "t">>,
     <<"G", "E", "T", " ", "/", "f", "i", "l", "e", "s", "/", "f", " ", "H", "T", "T", "P", "/", "1", ".", "1", "\n", "A", "c", "c", "e", "p", "t", ":", " ", "*", "/", "*", "\n">>,
     <<"G", "E", "T", " ", "/", " ", "H", "T", "T", "P", "/", "1", ".", "1", "\r", "\n", "C", "o", "n", "n", "e", "c", "t", "i", "o", "n", ":", " ", "c", "l", "o", "s", "e", "\r", "\n">>,
     <<"G", "E", "T", " ", "/", " ", "H", "T", "T", "P", "/", "1", ".", "1", "\r", "\n", "H", "o", "s">>,
     <<"P", "O", "S", "T", " ", "/", "f", "i", "l", "e", "s", "/", "f", " ", "H", "T", "T", "P", "/", "1", ".", "1", "\r", "\n", "C", "o", "n", "t", "e", "n", "t", "-", "L", "e", "n", "g", "t", "h", ":", " ", "2", "\r", "\n">>,
     <<"P", "O", "S", "T", " ", "/", "f", "i", "l", "e", "s", "/", "d", " ", "H", "T", "T", "P", "/", "1", ".", "1", "\r", "\n">>}

InitCut ==
    /\ InitConns({1})
    /\ files = Dir_d_f
    /\ budget = MaxSends
    /\ InitValidatorIdle
    /\ InitSerializerIdle
    /\ InitParserIdle
    /\ InitLookupIdle

\* whole requests may come before the one that is cut off
NextCut ==
    \/ \E c \in DOMAIN pc, m \in CutRequests \cup {Req_Echo, Req_GetFile} :
          ClientSend(c, m)
    \/ \E c \in DOMAIN pc : ClientShutdown(c)
    \/ \E c \in DOMAIN pc : ParseRequest(c)
    \/ \E c \in DOMAIN pc : Route(c)
    \/ \E c \in DOMAIN pc : StreamFile(c)
    \/ \E c \in DOMAIN pc : FinishRequest(c)

SpecCut == InitCut /\ [][NextCut]_vars

-----------------------------------------------------------------------------

(* Specification: one request sent with each of the two line terminators *)

\* request lines and header lines without their terminator; one header
\* line ends with a carriage return of its own, one has no colon
TerminatorRequestLines ==
    {<<"G", "E", "T", " ", "/", "e", "c", "h", "o", "/", "a", "b", " ", "H", "T", "T", "P", "/", "1", ".", "1">>, <<"G", "E", "T", " ", "/", "u", "s", "e", "r", "-", "a", "g", "e", "n", "t", " ", "H", "T", "T", "P", "/", "1", ".", "1">>,
     <<"P", "O", "S", "T", " ", "/", "f", "i", "l", "e", "s", "/", "f", " ", "H", "T", "T", "P", "/", "1", ".", "1">>, <<"G", "E", "T", " ", "/", "f", "i", "l", "e", "s", "/", "f", " ", "H", "T", "T", "P", "/", "1", ".", "1">>}

TerminatorHeaderLines ==
    {<<"C", "o", "n", "t", "e", "n", "t", "-", "L", "e", "n", "g", "t", "h", ":", " ", "2">>, <<"U", "s", "e", "r", "-", "A", "g", "e", "n", "t", ":", " ", "c", "\r">>, <<"C", "o", "n", "n", "e", "c", "t", "i", "o", "n", ":", " ", "c", "l", "o", "s", "e">>, <<"N", "o", "C", "o", "l", "o", "n">>}

\* what follows the blank line
TerminatorBodies == {<<>>, <<"x", "y">>}

\* the bytes of lines, each followed by terminator
RECURSIVE Terminated(_, _)
Terminated(lines, terminator) ==
    IF lines = <<>> THEN <<>>
    ELSE Head(lines) \o terminator \o Terminated(Tail(lines), terminator)

\* the request as the client writes it: request line, header lines, blank
\* line, body
Raw(request_line, header_lines, body, terminator) ==
    Terminated(<<request_line>> \o header_lines \o << <<>> >>, terminator) \o body

InitTerminators ==
    /\ InitConns({1, 2})
    /\ files = Dir_d_f
    /\ budget = 1
    /\ InitValidatorIdle
    /\ InitSerializerIdle
    /\ InitParserIdle
    /\ InitLookupIdle

\* One client writes a request with "\r\n" to connection 1, another the
\* same request with "\n" to connection 2.
ClientsSend(request_line, header_lines, body) ==
    /\ budget > 0
    /\ \A c \in DOMAIN pc : pc[c] # "CLOSED" /\ ~clientEof[c]
    /\ inbuf' = [inbuf EXCEPT
                   ![1] = @ \o Raw(request_line, header_lines, body, Str_CRLF),
                   ![2] = @ \o Raw(request_line, header_lines, body, <<LF>>)]
    /\ budget' = budget - 1
    /\ UNCHANGED <<pc, clientEof, out, request, should_close, response, file,
                   result, files, fsLog, served>>
    /\ UNCHANGED harnessVars

NextTerminators ==
    \/ \E request_line \in TerminatorRequestLines,
          header_lines \in UNION {[1..n -> TerminatorHeaderLines] : n \in 0..MaxHeaders},
          body \in TerminatorBodies :
          ClientsSend(request_line, header_lines, body)
    \/ \E c \in DOMAIN pc : ClientShutdown(c)
    \/ \E c \in DOMAIN pc : ParseRequest(c)
    \/ \E c \in DOMAIN pc : Route(c)
    \/ \E c \in DOMAIN pc : StreamFile(c)
    \/ \E c \in DOMAIN pc : FinishRequest(c)

SpecTerminators == InitTerminators /\ [][NextTerminators]_vars

-----------------------------------------------------------------------------

(* Specification: the accept loop and two connections (server.rs, run) *)

\* what one connection's task and its client hold
Local(c) ==
    <<pc[c], inbuf[c], clientEof[c], out[c], request[c], should_close[c],
      response[c], file[c], result[c], served[c]>>

\* a plausible slip: the accept loop awaits handle_request itself instead
\* of spawning a task for it
Accept_awaits_handle_request(c) ==
    /\ pc[c] = "PENDING"
    /\ \A d \in DOMAIN pc \ {c} : pc[d] \in {"PENDING", "ABORTED", "CLOSED"}
    /\ pc' = [pc EXCEPT ![c] = "AWAITING_REQUEST"]
    /\ UNCHANGED <<inbuf, clientEof, out, request, should_close, response, file,
                   result, files, fsLog, served, budget>>
    /\ UNCHANGED harnessVars

\* listener.accept() returns Ok((stream, _)): a task is spawned that runs
\* handle_request on the stream, and the loop goes on to the next accept
Accept(c) ==
    /\ pc[c] = "PENDING"
    /\ pc' = [pc EXCEPT ![c] = "AWAITING_REQUEST"]
    /\ UNCHANGED <<inbuf, clientEof, out, request, should_close, response, file,
                   result, files, fsLog, served, budget>>
    /\ UNCHANGED harnessVars

\* listener.accept() returns Err: the error is logged, no task is spawned,
\* and the loop goes on to the next accept
AcceptFails(c) ==
    /\ pc[c] = "PENDING"
    /\ pc' = [pc EXCEPT ![c] = "ABORTED"]
    /\ UNCHANGED <<inbuf, clientEof, out, request, should_close, response, file,
                   result, files, fsLog, served, budget>>
    /\ UNCHANGED harnessVars

\* requests that end a connection with a parse error or an I/O error, and
\* requests that are answered
ServerRequests == {Bad_Header, Req_PostDir, Req_Echo, Req_GetFile, Req_PostFile}

\* two clients have connected; neither connection has been accepted yet
InitServer ==
    /\ pc = [c \in {1, 2} |-> "PENDING"]
    /\ inbuf = [c \in {1, 2} |-> <<>>]
    /\ clientEof = [c \in {1, 2} |-> FALSE]
    /\ out = [c \in {1, 2} |-> <<>>]
    /\ request = [c \in {1, 2} |-> None]
    /\ should_close = [c \in {1, 2} |-> FALSE]
    /\ response = [c \in {1, 2} |-> None]
    /\ file = [c \in {1, 2} |-> None]
    /\ result = [c \in {1, 2} |-> Running]
    /\ served = [c \in {1, 2} |-> <<>>]
    /\ fsLog = <<>>
    /\ files = Dir_d_f
    /\ budget = MaxSends
    /\ InitValidatorIdle
    /\ InitSerializerIdle
    /\ InitParserIdle
    /\ InitLookupIdle

NextServer ==
    \/ \E c \in DOMAIN pc : Accept(c)
    \/ \E c \in DOMAIN pc : AcceptFails(c)
    \/ \E c \in DOMAIN pc, m \in ServerRequests : ClientSend(c, m)
    \/ \E c \in DOMAIN pc : ClientShutdown(c)
    \/ \E c \in DOMAIN pc : ParseRequest(c)
    \/ \E c \in DOMAIN pc : Route(c)
    \/ \E c \in DOMAIN pc : StreamFile(c)
    \/ \E c \in DOMAIN pc : FinishRequest(c)

SpecServer == InitServer /\ [][NextServer]_vars

-----------------------------------------------------------------------------

(* Specification: two connections that use one file at the same time *)

\* route hands req to handle_file_post
posts_file(req) ==
    /\ is_some(strip_prefix(req.path, Str_FilesPrefix))
    /\ is_valid_single_filename(unwrap(strip_prefix(req.path, Str_FilesPrefix)))
    /\ req.method = <<"P", "O", "S", "T">>

\* write_all of one buffer on a file opened at offset 0: the bytes replace
\* the start of what the file holds by then
write_all(data, body) == body \o SubSeq(data, Len(body) + 1, Len(data))

\* POST /files/f with the body q
Req_PostFileShort == <<"P", "O", "S", "T", " ", "/", "f", "i", "l", "e", "s", "/", "f", " ", "H", "T", "T", "P", "/", "1", ".", "1", "\r", "\n", "C", "o", "n", "t", "e", "n", "t", "-", "L", "e", "n", "g", "t", "h", ":", " ", "1", "\r", "\n", "\r", "\n", "q">>

RaceRequests == {Req_PostFile, Req_PostFileShort, Req_GetFile}

\* route for every request but a POST of a file, whose fs::write is taken
\* in its two steps below
RouteOther(c) ==
    /\ pc[c] = "DISPATCHING"
    /\ ~posts_file(unwrap(request[c]))
    /\ Route(c)

\* handle_file_post as far as the first half of fs::write, File::create:
\* the file is created or truncated, or the open fails and the error is
\* propagated
CreateFile(c) ==
    /\ pc[c] = "DISPATCHING"
    /\ posts_file(unwrap(request[c]))
    /\ \E opened \in {write(files, join(FilesDir, unwrap(strip_prefix(unwrap(request[c]).path, Str_FilesPrefix))), <<>>)} :
         LET req  == unwrap(request[c])
             path == join(FilesDir, unwrap(strip_prefix(req.path, Str_FilesPrefix)))
             n    == Len(served[c])
         IN
           /\ should_close' = [should_close EXCEPT ![c] = should_close_of(req)]
           /\ files' = IF is_some(opened) THEN unwrap(opened) ELSE files
           /\ fsLog' = Append(fsLog, call("write", path))
           /\ pc' = [pc EXCEPT ![c] = IF is_some(opened) THEN "WRITING" ELSE "CLOSED"]
           /\ result' = [result EXCEPT ![c] =
                           IF is_some(opened) THEN Running
                           ELSE [ret |-> "Err", by |-> "io"]]
           /\ file' = [file EXCEPT ![c] =
                         IF is_some(opened) THEN Some(resolve(path).entry) ELSE None]
           /\ served' = [served EXCEPT
                           ![c][n].io = ~is_some(opened),
                           ![c][n].files = files,
                           ![c][n].calls = <<call("write", path)>>]
    /\ UNCHANGED <<inbuf, clientEof, out, request, response, budget>>
    /\ UNCHANGED harnessVars

\* the second half of fs::write, write_all on the open file, and the
\* return of Response::created()
WriteAll(c) ==
    /\ pc[c] = "WRITING"
    /\ files' = [files EXCEPT ![unwrap(file[c])].data =
                   write_all(@, IF is_some(unwrap(request[c]).body)
                                THEN unwrap(unwrap(request[c]).body) ELSE <<>>)]
    /\ file' = [file EXCEPT ![c] = None]
    /\ response' = [response EXCEPT ![c] = Some(created)]
    /\ pc' = [pc EXCEPT ![c] = "WRITE_RESPONSE"]
    /\ UNCHANGED <<inbuf, clientEof, out, request, should_close, result, fsLog,
                   served, budget>>
    /\ UNCHANGED harnessVars

InitRace ==
    /\ InitConns({1, 2})
    /\ files = Dir_d_f
    /\ budget = MaxSends
    /\ InitValidatorIdle
    /\ InitSerializerIdle
    /\ InitParserIdle
    /\ InitLookupIdle

NextRace ==
    \/ \E c \in DOMAIN pc, m \in RaceRequests : ClientSend(c, m)
    \/ \E c \in DOMAIN pc : ClientShutdown(c)
    \/ \E c \in DOMAIN pc : ParseRequest(c)
    \/ \E c \in DOMAIN pc : RouteOther(c)
    \/ \E c \in DOMAIN pc : CreateFile(c)
    \/ \E c \in DOMAIN pc : WriteAll(c)
    \/ \E c \in DOMAIN pc : StreamFile(c)
    \/ \E c \in DOMAIN pc : FinishRequest(c)

SpecRace == InitRace /\ [][NextRace]_vars

-----------------------------------------------------------------------------

(* Specification: one connection whose transport can fail, under a fair scheduler *)

\* A read from the stream, or a write or flush to it, returns an error,
\* which `?` propagates out of handle_request: the read of the next
\* request, the write of the returned Response, the copy of the file to the
\* stream, the flush after it.
TransportFails(c) ==
    /\ pc[c] \in {"AWAITING_REQUEST", "WRITE_RESPONSE", "STREAMING", "STREAMED"}
    /\ pc' = [pc EXCEPT ![c] = "CLOSED"]
    /\ result' = [result EXCEPT ![c] = [ret |-> "Err", by |-> "transport"]]
    /\ file' = [file EXCEPT ![c] = None]
    /\ response' = [response EXCEPT ![c] = None]
    /\ UNCHANGED <<inbuf, clientEof, out, request, should_close, files, fsLog,
                   served, budget>>
    /\ UNCHANGED harnessVars

\* fs::File::open returns an error although fs::metadata has just found a
\* regular file (the file has been removed or may not be read): `?`
\* propagates it before anything is written.
OpenFails(c) ==
    /\ pc[c] = "DISPATCHING"
    /\ route(unwrap(request[c]), files).kind = "Stream"
    /\ should_close' = [should_close EXCEPT ![c] = should_close_of(unwrap(request[c]))]
    /\ pc' = [pc EXCEPT ![c] = "CLOSED"]
    /\ result' = [result EXCEPT ![c] = [ret |-> "Err", by |-> "io"]]
    /\ fsLog' = fsLog \o route(unwrap(request[c]), files).calls
    /\ served' = [served EXCEPT
                    ![c][Len(served[c])].io = TRUE,
                    ![c][Len(served[c])].files = files,
                    ![c][Len(served[c])].calls = route(unwrap(request[c]), files).calls]
    /\ UNCHANGED <<inbuf, clientEof, out, request, response, file, files, budget>>
    /\ UNCHANGED harnessVars

\* a step of the task that runs handle_request on connection c
TaskStep(c) == ParseRequest(c) \/ Route(c) \/ StreamFile(c) \/ FinishRequest(c)

FaultRequests ==
    {Req_Echo, Req_RootClose, Req_GetFile, Req_PostFile, Req_PostDir,
     Bad_Header, Bad_ShortBody}

InitFaults ==
    /\ InitConns({1})
    /\ files = Dir_d_f
    /\ budget = MaxSends
    /\ InitValidatorIdle
    /\ InitSerializerIdle
    /\ InitParserIdle
    /\ InitLookupIdle

NextFaults ==
    \/ \E c \in DOMAIN pc, m \in FaultRequests : ClientSend(c, m)
    \/ \E c \in DOMAIN pc : ClientShutdown(c)
    \/ \E c \in DOMAIN pc : TransportFails(c)
    \/ \E c \in DOMAIN pc : OpenFails(c)
    \/ \E c \in DOMAIN pc : ParseRequest(c)
    \/ \E c \in DOMAIN pc : Route(c)
    \/ \E c \in DOMAIN pc : StreamFile(c)
    \/ \E c \in DOMAIN pc : FinishRequest(c)

\* the runtime polls a task that can go on: a task step that stays
\* possible is taken
SpecFaults == InitFaults /\ [][NextFaults]_vars /\ WF_vars(TaskStep(1))

-----------------------------------------------------------------------------

(* Specification: requests the router answers with 404, and what follows them *)

\* an unknown path, /user-agent without the header, an invalid filename, a
\* missing file, a directory, an unsupported method on /files/, and an
\* unknown path with Connection: close
NotFoundRequests ==
    {<<"G", "E", "T", " ", "/", "n", "o", "p", "e", " ", "H", "T", "T", "P", "/", "1", ".", "1", "\r", "\n", "\r", "\n">>,
     <<"G", "E", "T", " ", "/", "u", "s", "e", "r", "-", "a", "g", "e", "n", "t", " ", "H", "T", "T", "P", "/", "1", ".", "1", "\r", "\n", "H", "o", "s", "t", ":", " ", "t", "\r", "\n", "\r", "\n">>,
     <<"G", "E", "T", " ", "/", "f", "i", "l", "e", "s", "/", ".", ".", "/", "f", " ", "H", "T", "T", "P", "/", "1", ".", "1", "\r", "\n", "\r", "\n">>,
     <<"G", "E", "T", " ", "/", "f", "i", "l", "e", "s", "/", "g", " ", "H", "T", "T", "P", "/", "1", ".", "1", "\r", "\n", "\r", "\n">>,
     <<"G", "E", "T", " ", "/", "f", "i", "l", "e", "s", "/", "d", " ", "H", "T", "T", "P", "/", "1", ".", "1", "\r", "\n", "\r", "\n">>,
     <<"P", "U", "T", " ", "/", "f", "i", "l", "e", "s", "/", "f", " ", "H", "T", "T", "P", "/", "1", ".", "1", "\r", "\n", "C", "o", "n", "t", "e", "n", "t", "-", "L", "e", "n", "g", "t", "h", ":", " ", "1", "\r", "\n", "\r", "\n", "z">>,
     <<"G", "E", "T", " ", "/", "e", "c", "h", "o", " ", "H", "T", "T", "P", "/", "1", ".", "1", "\r", "\n", "C", "o", "n", "n", "e", "c", "t", "i", "o", "n", ":", " ", "c", "l", "o", "s", "e", "\r", "\n", "\r", "\n">>}

InitNotFound ==
    /\ InitConns({1})
    /\ files = Dir_d_f
    /\ budget = MaxSends
    /\ InitValidatorIdle
    /\ InitSerializerIdle
    /\ InitParserIdle
    /\ InitLookupIdle

NextNotFound ==
    \/ \E c \in DOMAIN pc, m \in NotFoundRequests \cup {Req_Echo, Req_GetFile, Req_PostFile} :
          ClientSend(c, m)
    \/ \E c \in DOMAIN pc : ClientShutdown(c)
    \/ \E c \in DOMAIN pc : ParseRequest(c)
    \/ \E c \in DOMAIN pc : Route(c)
    \/ \E c \in DOMAIN pc : StreamFile(c)
    \/ \E c \in DOMAIN pc : FinishRequest(c)

SpecNotFound == InitNotFound /\ [][NextNotFound]_vars

-----------------------------------------------------------------------------

(* Specification: requests with and without Connection headers, one after the other *)

\* request lines for three routes, two versions and two statuses
KeepAliveRequestLines ==
    {<<"G", "E", "T", " ", "/", " ", "H", "T", "T", "P", "/", "1", ".", "0">>, <<"G", "E", "T", " ", "/", "n", "o", "p", "e", " ", "H", "T", "T", "P", "/", "1", ".", "1">>, <<"G", "E", "T", " ", "/", "f", "i", "l", "e", "s", "/", "f", " ", "H", "T", "T", "P", "/", "1", ".", "1">>}

\* no Connection header, one (close in two spellings, keep-alive, a list
\* that contains close), and two of which one says close
KeepAliveHeaderLines ==
    {<<>>,
     << <<"C", "o", "n", "n", "e", "c", "t", "i", "o", "n", ":", " ", "c", "l", "o", "s", "e">> >>,
     << <<"c", "o", "n", "n", "e", "c", "t", "i", "o", "n", ":", " ", " ", "C", "L", "O", "S", "E", " ">> >>,
     << <<"C", "o", "n", "n", "e", "c", "t", "i", "o", "n", ":", " ", "k", "e", "e", "p", "-", "a", "l", "i", "v", "e">> >>,
     << <<"C", "o", "n", "n", "e", "c", "t", "i", "o", "n", ":", " ", "c", "l", "o", "s", "e", ",", " ", "k", "e", "e", "p", "-", "a", "l", "i", "v", "e">> >>,
     << <<"C", "o", "n", "n", "e", "c", "t", "i", "o", "n", ":", " ", "k", "e", "e", "p", "-", "a", "l", "i", "v", "e">>, <<"C", "o", "n", "n", "e", "c", "t", "i", "o", "n", ":", " ", "c", "l", "o", "s", "e">> >>,
     << <<"C", "o", "n", "n", "e", "c", "t", "i", "o", "n", ":", " ", "c", "l", "o", "s", "e">>, <<"C", "o", "n", "n", "e", "c", "t", "i", "o", "n", ":", " ", "k", "e", "e", "p", "-", "a", "l", "i", "v", "e">> >>}

KeepAliveRequests ==
    {Raw(request_line, header_lines, <<>>, Str_CRLF) :
        request_line \in KeepAliveRequestLines, header_lines \in KeepAliveHeaderLines}

InitKeepAlive ==
    /\ InitConns({1})
    /\ files = Dir_d_f
    /\ budget = MaxSends
    /\ InitValidatorIdle
    /\ InitSerializerIdle
    /\ InitParserIdle
    /\ InitLookupIdle

NextKeepAlive ==
    \/ \E c \in DOMAIN pc, m \in KeepAliveRequests : ClientSend(c, m)
    \/ \E c \in DOMAIN pc : ClientShutdown(c)
    \/ \E c \in DOMAIN pc : ParseRequest(c)
    \/ \E c \in DOMAIN pc : Route(c)
    \/ \E c \in DOMAIN pc : StreamFile(c)
    \/ \E c \in DOMAIN pc : FinishRequest(c)

SpecKeepAlive == InitKeepAlive /\ [][NextKeepAlive]_vars

-----------------------------------------------------------------------------

(* Specification: blank lines before a request line *)

\* a lone CRLF, a lone line feed, and a POST whose one-byte body is followed
\* by a CRLF the Content-Length does not count
StrayRequests ==
    {<<"\r", "\n">>, <<"\n">>,
     <<"P", "O", "S", "T", " ", "/", "f", "i", "l", "e", "s", "/", "n", " ", "H", "T", "T", "P", "/", "1", ".", "1", "\r", "\n", "C", "o", "n", "t", "e", "n", "t", "-", "L", "e", "n", "g", "t", "h", ":", " ", "1", "\r", "\n", "\r", "\n", "z", "\r", "\n">>}

InitStray ==
    /\ InitConns({1})
    /\ files = Dir_d_f
    /\ budget = MaxSends
    /\ InitValidatorIdle
    /\ InitSerializerIdle
    /\ InitParserIdle
    /\ InitLookupIdle

NextStray ==
    \/ \E c \in DOMAIN pc, m \in StrayRequests \cup {Req_Echo, Req_GetFile} :
          ClientSend(c, m)
    \/ \E c \in DOMAIN pc : ClientShutdown(c)
    \/ \E c \in DOMAIN pc : ParseRequest(c)
    \/ \E c \in DOMAIN pc : Route(c)
    \/ \E c \in DOMAIN pc : StreamFile(c)
    \/ \E c \in DOMAIN pc : FinishRequest(c)

SpecStray == InitStray /\ [][NextStray]_vars

-----------------------------------------------------------------------------

(* Properties: the path validator *)

\* name has the shape  head tail : head is a non-empty run of bytes
\* without "/" that is neither "." nor "..", and tail consists of "/"
\* bytes and of single "." bytes, each of them between a "/" and either a
\* "/" or the end of the name
OneNormalComponent(name) ==
    \E k \in 1..Len(name) :
        /\ \A i \in 1..k : name[i] # "/"
        /\ SubSeq(name, 1, k) \notin {<<".">>, <<".", ".">>}
        /\ k < Len(name) => name[k + 1] = "/"
        /\ \A i \in (k + 1)..Len(name) :
              \/ name[i] = "/"
              \/ /\ name[i] = "."
                 /\ name[i - 1] = "/"
                 /\ i = Len(name) \/ name[i + 1] = "/"

\* name contains the bytes of part, in a row
Contains(name, part) ==
    \E i \in 0..(Len(name) - Len(part)) : SubSeq(name, i + 1, i + Len(part)) = part

-----------------------------------------------------------------------------
(* Properties: the connection loop *)

\* the request last parsed on c has not been handled to its end
InFlight(c) == pc[c] \in {"DISPATCHING", "STREAMING", "STREAMED", "WRITE_RESPONSE"}

\* request i of connection c has been handled to its end
Done(c, i) == i < Len(served[c]) \/ ~InFlight(c)

\* the filename argument of a request to a file route
FileName(req) == unwrap(strip_prefix(req.path, Str_FilesPrefix))

IsFileRequest(req) == starts_with(req.path, Str_FilesPrefix)

\* the 404 reply, byte for byte
NotFoundBytes ==
    <<"H", "T", "T", "P", "/", "1", ".", "1", " ", "4", "0", "4", " ", "N", "o", "t", " ", "F", "o", "u", "n", "d", "\r", "\n", "C", "o", "n", "t", "e", "n", "t", "-", "T", "y", "p", "e", ":", " ", "t", "e", "x", "t", "/", "p", "l", "a", "i", "n", "\r", "\n", "C", "o", "n", "t", "e", "n", "t", "-", "L", "e", "n", "g", "t", "h", ":", " ", "9", "\r", "\n", "\r", "\n", "N", "o", "t", " ", "F", "o", "u", "n", "d">>

Lower(s) == [k \in 1..Len(s) |-> to_ascii_lowercase(s[k])]

\* req carries `Connection: close`: its first header named Connection,
\* in any letter case, has the value close, in any letter case
CarriesClose(req) ==
    \E i \in 1..Len(req.headers) :
        /\ Lower(req.headers[i][1]) = <<"c", "o", "n", "n", "e", "c", "t", "i", "o", "n">>
        /\ \A j \in 1..(i - 1) : Lower(req.headers[j][1]) # <<"c", "o", "n", "n", "e", "c", "t", "i", "o", "n">>
        /\ Lower(req.headers[i][2]) = <<"c", "l", "o", "s", "e">>

\* The response to req on its own, with the served directory fs: what the
\* router yields for it, serialized - a returned Response in full, a
\* streamed file as head and the file's bytes, nothing if the handler fails.
ResponseAlone(req, fs) ==
    Let(route(req, fs), LAMBDA r :
        IF r.kind = "Some" THEN build_raw(r.resp)
        ELSE IF r.kind = "Stream"
        THEN build_headers_raw(r.resp)
             \o fs[resolve(join(FilesDir, FileName(req))).entry].data
        ELSE <<>>)

\* the responses written on c, one after the other in request order
RECURSIVE Flat(_, _)
Flat(c, n) == IF n = 0 THEN <<>> ELSE Flat(c, n - 1) \o served[c][n].wrote

\* the number of responses put on the wire for request i of c
Responses(c, i) == served[c][i].loop + served[c][i].stream

EchoBytes ==
    <<"H", "T", "T", "P", "/", "1", ".", "1", " ", "2", "0", "0", " ", "O", "K", "\r", "\n", "C", "o", "n", "t", "e", "n", "t", "-", "T", "y", "p", "e", ":", " ", "t", "e", "x", "t", "/", "p", "l", "a", "i", "n", "\r", "\n", "C", "o", "n", "t", "e", "n", "t", "-", "L", "e", "n", "g", "t", "h", ":", " ", "2", "\r", "\n", "\r", "\n", "a", "b">>

\* C3: when the loop awaits a request, the client has closed and not one
\* byte is left to read, the loop's next step ends it normally: it
\* returns Ok and writes nothing, on a fresh connection as after any
\* number of served requests.
C3_CleanEofEndsNormally ==
    [][\A c \in DOMAIN pc :
          (pc[c] = "AWAITING_REQUEST" /\ inbuf[c] = <<>> /\ clientEof[c])
          => /\ pc'[c] = "CLOSED"
             /\ result'[c] = [ret |-> "Ok", by |-> "eof"]
             /\ out'[c] = out[c]
             /\ served'[c] = served[c]]_vars

\* the client has closed after one answered request and the loop has ended
\* normally, nothing but that one response written
C3_Witness ==
    /\ pc[1] = "CLOSED"
    /\ result[1] = [ret |-> "Ok", by |-> "eof"]
    /\ clientEof[1]
    /\ Len(served[1]) = 1
    /\ out[1] = EchoBytes

\* the number of whitespace-separated tokens of line
TokenCount(line) ==
    Cardinality({k \in 1..Len(line) :
                    /\ line[k] \notin WhiteSpace
                    /\ k = 1 \/ line[k - 1] \in WhiteSpace})

\* The bytes buf waiting to be read, with the client's side closed or not
\* (eof), start a request with a connection-fatal fault: a complete request
\* line without exactly three tokens, a header line without a colon, a
\* Content-Length that is no number, or a body cut short by the close.
Malformed(buf, eof) ==
    \/ /\ find(buf, LF) > 0 \/ (eof /\ buf # <<>>)
       /\ TokenCount(IF find(buf, LF) > 0 THEN SubSeq(buf, 1, find(buf, LF)) ELSE buf) # 3
    \/ starts_with(buf, Bad_Header)
    \/ starts_with(buf, Bad_ContentLength)
    \/ buf = Bad_ShortBody /\ eof

\* C4: when the loop awaits a request and the bytes to read start a
\* malformed request, the step by which the loop leaves that state ends it
\* with the error surfaced and writes nothing; the responses written
\* before stay as they are, and after a parse error nothing is read,
\* parsed or written on the connection again.
C4_ParseErrorEndsWithError ==
    [][\A c \in DOMAIN pc :
          /\ (/\ pc[c] = "AWAITING_REQUEST"
              /\ Malformed(inbuf[c], clientEof[c])
              /\ pc'[c] # pc[c])
             => /\ pc'[c] = "CLOSED"
                /\ result'[c] = [ret |-> "Err", by |-> "parse"]
                /\ out'[c] = out[c]
                /\ served'[c] = served[c]
          /\ result[c].by = "parse"
             => /\ pc[c] = "CLOSED" /\ pc'[c] = "CLOSED"
                /\ result'[c] = result[c]
                /\ out'[c] = out[c]
                /\ served'[c] = served[c]
                /\ inbuf'[c] = inbuf[c]]_vars

\* after one answered request the client has sent a POST with a body
\* shorter than declared and closed; the loop has ended with the parse
\* error, nothing written but the first response
C4_Witness ==
    /\ pc[1] = "CLOSED"
    /\ result[1] = [ret |-> "Err", by |-> "parse"]
    /\ inbuf[1] = Bad_ShortBody
    /\ clientEof[1]
    /\ Len(served[1]) = 1
    /\ out[1] = EchoBytes

\* req is a GET for an existing regular file of fs under a valid name
IsFileGetSuccess(req, fs) ==
    /\ req.method = <<"G", "E", "T">>
    /\ IsFileRequest(req)
    /\ OneNormalComponent(FileName(req))
    /\ is_some(metadata(fs, join(FilesDir, FileName(req))))
    /\ unwrap(metadata(fs, join(FilesDir, FileName(req)))).is_file

\* C5: a parsed request whose handler does not fail with an I/O error gets
\* exactly one response, by exactly one path: the loop writes the Response
\* the handler returned, once, or the handler streamed it (a successful
\* file GET, and only that) and the loop writes nothing; never both, never
\* neither.
C5_ExactlyOneResponsePath ==
    \A c \in DOMAIN pc : \A i \in 1..Len(served[c]) :
        LET s == served[c][i]
        IN  /\ s.loop + s.stream <= 1
            /\ s.stream = 1 => IsFileGetSuccess(s.req, s.files)
            /\ (Done(c, i) /\ ~s.io)
               => /\ s.loop + s.stream = 1
                  /\ s.stream = 1 <=> IsFileGetSuccess(s.req, s.files)
                  /\ s.stream = 1 <=> route(s.req, s.files).kind = "Stream"
                  /\ s.loop = 1 => s.wrote = build_raw(route(s.req, s.files).resp)
                  /\ s.stream = 1
                     => s.wrote = build_headers_raw(route(s.req, s.files).resp)
                                  \o s.files[FileName(s.req)].data

\* a file GET has been streamed by its handler and the request after it
\* answered by the loop
C5_Witness ==
    /\ Len(served[1]) = 2
    /\ ~InFlight(1)
    /\ served[1][1].stream = 1 /\ served[1][1].loop = 0
    /\ served[1][2].stream = 0 /\ served[1][2].loop = 1

\* C6: on one connection a request is parsed - bytes are taken from the
\* connection, a request is added - only while the loop awaits a request,
\* every request parsed before being answered in full by then; what is
\* written is appended to the response of the request last parsed, the
\* responses before it stay as they are, and the bytes written are the
\* responses in request order.
C6_StrictlySequential ==
    [][\A c \in DOMAIN pc :
          /\ (Len(served'[c]) # Len(served[c]) \/ Len(inbuf'[c]) < Len(inbuf[c]))
             => /\ pc[c] = "AWAITING_REQUEST"
                /\ out[c] = Flat(c, Len(served[c]))
                /\ \A i \in 1..Len(served[c]) :
                      /\ Responses(c, i) = 1
                      /\ served[c][i].wrote =
                             ResponseAlone(served[c][i].req, served[c][i].files)
                      /\ served'[c][i] = served[c][i]
                /\ Len(served'[c]) = Len(served[c]) + 1
                /\ out'[c] = out[c]
          /\ out'[c] # out[c]
             => /\ InFlight(c)
                /\ Len(served'[c]) = Len(served[c])
                /\ inbuf'[c] = inbuf[c]
                /\ \A i \in 1..(Len(served[c]) - 1) : served'[c][i] = served[c][i]
                /\ \E bytes \in {served'[c][Len(served[c])].wrote} :
                      /\ out'[c] = Flat(c, Len(served[c]) - 1) \o bytes
                      /\ Len(bytes) > Len(served[c][Len(served[c])].wrote)]_vars

\* the client has sent two requests back to back; the first is parsed and
\* its response not yet written, the second waits unread
C6_Witness ==
    /\ pc[1] = "WRITE_RESPONSE"
    /\ Len(served[1]) = 1
    /\ out[1] = <<>>
    /\ inbuf[1] = Req_Echo
    /\ budget = 0

\* The state of the connection loop in the terms of the spec's state
\* machine: a handler that is streaming a file is still being dispatched.
LoopState(c) == IF pc[c] = "STREAMING" THEN "DISPATCHING" ELSE pc[c]

\* the transitions the spec's state machine lists
ListedTransitions ==
    {<<"AWAITING_REQUEST", "DISPATCHING">>,
     <<"DISPATCHING", "WRITE_RESPONSE">>, <<"DISPATCHING", "STREAMED">>,
     <<"WRITE_RESPONSE", "AWAITING_REQUEST">>, <<"WRITE_RESPONSE", "CLOSED">>,
     <<"STREAMED", "AWAITING_REQUEST">>, <<"STREAMED", "CLOSED">>,
     <<"AWAITING_REQUEST", "CLOSED">>}

\* A step of connection c keeps to the transitions allowed: the loop
\* closes from AWAITING_REQUEST only on EOF or a parse failure, bytes are
\* written only for a parsed request that has no complete response yet,
\* and once CLOSED the connection is neither read nor written again.
KeepsTo(c, allowed) ==
    /\ LoopState(c)' # LoopState(c)
       => /\ <<LoopState(c), LoopState(c)'>> \in allowed
          /\ (LoopState(c) = "AWAITING_REQUEST" /\ LoopState(c)' = "CLOSED")
             => result'[c].by \in {"eof", "parse"}
          /\ (LoopState(c) = "AWAITING_REQUEST" /\ LoopState(c)' = "DISPATCHING")
             => /\ Len(served'[c]) = Len(served[c]) + 1
                /\ from_reader(inbuf[c], clientEof[c]).status = "Some"
    /\ out'[c] # out[c]
       => /\ pc[c] \in {"DISPATCHING", "STREAMING", "WRITE_RESPONSE"}
          /\ Responses(c, Len(served[c])) = 0
    /\ pc[c] = "CLOSED"
       => /\ pc'[c] = "CLOSED"
          /\ out'[c] = out[c]
          /\ inbuf'[c] = inbuf[c]
          /\ served'[c] = served[c]
          /\ result'[c] = result[c]

\* C7 as stated: the loop follows only the listed transitions, writes a
\* response only after a successful parse of a request not yet answered,
\* and CLOSED is absorbing.
C7_OnlyListedTransitions ==
    [][\A c \in DOMAIN pc : KeepsTo(c, ListedTransitions)]_vars

\* C7, amended: the same with one more transition, DISPATCHING -> CLOSED,
\* which the loop takes when, and only when, the handler fails with an I/O
\* error; it then returns that error.
C7_TransitionsWithHandlerFailure ==
    [][\A c \in DOMAIN pc :
          /\ KeepsTo(c, ListedTransitions \cup {<<"DISPATCHING", "CLOSED">>})
          /\ (LoopState(c) = "DISPATCHING" /\ LoopState(c)' = "CLOSED")
             <=> (result[c] = Running /\ result'[c] = [ret |-> "Err", by |-> "io"])]_vars

\* after one answered request, a POST to a directory has ended the loop
\* from DISPATCHING with the handler's error
C7_Witness ==
    /\ pc[1] = "CLOSED"
    /\ result[1] = [ret |-> "Err", by |-> "io"]
    /\ Len(served[1]) = 2
    /\ served[1][2].io
    /\ out[1] = EchoBytes

-----------------------------------------------------------------------------
(* Properties: the file routes *)

\* req is the request POST /files/{name} with the content body
IsPostOf(req, name, body) ==
    /\ req.method = <<"P", "O", "S", "T">>
    /\ req.path = <<"/", "f", "i", "l", "e", "s", "/">> \o name
    /\ body = (IF is_some(req.body) THEN unwrap(req.body) ELSE <<>>)

\* the 200 reply that carries content as an octet stream, byte for byte
FileBytes(content) ==
    <<"H", "T", "T", "P", "/", "1", ".", "1", " ", "2", "0", "0", " ", "O", "K", "\r", "\n", "C", "o", "n", "t", "e", "n", "t", "-", "T", "y", "p", "e", ":", " ", "a", "p", "p", "l", "i", "c", "a", "t", "i", "o", "n", "/", "o", "c", "t", "e", "t", "-", "s", "t", "r", "e", "a", "m", "\r", "\n", "C", "o", "n", "t", "e", "n", "t", "-", "L", "e", "n", "g", "t", "h", ":", " ">>
    \o <<DigitChar[Len(content) + 1]>> \o <<"\r", "\n", "\r", "\n">> \o content

\* C8: once a POST of some content to /files/{name}, name a safe single
\* filename, has been answered 201, a later GET of /files/{name} with no
\* POST to that name in between is answered 200 with exactly that content
\* as its body and the content's length as Content-Length.
C8_RoundTrip ==
    \A c \in DOMAIN pc : \A i, j \in 1..Len(served[c]) :
      \A name \in RoundTripNames, body \in RoundTripBodies :
        (/\ i < j
         /\ IsPostOf(served[c][i].req, name, body)
         /\ is_valid_single_filename(name)
         /\ starts_with(served[c][i].wrote, <<"H", "T", "T", "P", "/", "1", ".", "1", " ", "2", "0", "1", " ">>)
         /\ served[c][j].req.method = <<"G", "E", "T">>
         /\ served[c][j].req.path = <<"/", "f", "i", "l", "e", "s", "/">> \o name
         /\ \A k \in (i + 1)..(j - 1) :
               ~(/\ served[c][k].req.method = <<"P", "O", "S", "T">>
                 /\ served[c][k].req.path = <<"/", "f", "i", "l", "e", "s", "/">> \o name)
         /\ Done(c, j))
        => served[c][j].wrote = FileBytes(body)

\* a line ending has been posted to the existing file f, a POST to another
\* name has followed, and the GET of f has returned the line ending
C8_Witness ==
    /\ Len(served[1]) = 3
    /\ ~InFlight(1)
    /\ IsPostOf(served[1][1].req, <<"f">>, <<CR, LF>>)
    /\ starts_with(served[1][1].wrote, <<"H", "T", "T", "P", "/", "1", ".", "1", " ", "2", "0", "1", " ">>)
    /\ IsPostOf(served[1][2].req, <<"a", ".", ".", "b">>, <<"x">>)
    /\ served[1][3].req.path = <<"/", "f", "i", "l", "e", "s", "/", "f">>
    /\ served[1][3].wrote = FileBytes(<<CR, LF>>)

\* path names a direct child of the served directory: it is the served
\* directory's path, a separator, and exactly one normal component
IsDirectChild(path) ==
    /\ starts_with(path, FilesDir \o <<"/">>)
    /\ OneNormalComponent(SubSeq(path, Len(FilesDir) + 2, Len(path)))

\* C11: a file request makes filesystem calls only if its filename has
\* been validated, every one of them on the served directory joined with
\* that filename, and every path ever read, opened or written is a direct
\* child of the served directory; nothing outside it is created.
C11_OnlyDirectChildren ==
    /\ \A k \in 1..Len(fsLog) : IsDirectChild(fsLog[k].path)
    /\ \A name \in DOMAIN files : \A k \in 1..Len(name) : name[k] # "/"
    /\ \A c \in DOMAIN pc : \A i \in 1..Len(served[c]) :
          LET s == served[c][i]
          IN  s.calls # <<>>
              => /\ IsFileRequest(s.req)
                 /\ OneNormalComponent(FileName(s.req))
                 /\ \A k \in 1..Len(s.calls) :
                       /\ IsDirectChild(s.calls[k].path)
                       /\ s.calls[k].op # "read"
                          => s.calls[k].path = FilesDir \o <<"/">> \o FileName(s.req)

\* a GET whose validated filename ends in a separator has reached the
\* filesystem, on a direct child of the served directory, and got its 404
C11_Witness ==
    /\ Len(served[1]) = 1
    /\ ~InFlight(1)
    /\ FileName(served[1][1].req) = <<"a", "/">>
    /\ fsLog = <<call("metadata", <<"/", "s", "r", "v", "/", "a", "/">>)>>
    /\ served[1][1].wrote = NotFoundBytes

-----------------------------------------------------------------------------
(* Properties: router and handlers *)

\* a length below 100 in decimal digits
Decimal(n) ==
    IF n < 10 THEN <<DigitChar[n + 1]>>
    ELSE <<DigitChar[(n \div 10) + 1], DigitChar[(n % 10) + 1]>>

\* the 200 text/plain reply with the body body, byte for byte
OkTextBytes(body) ==
    <<"H", "T", "T", "P", "/", "1", ".", "1", " ", "2", "0", "0", " ", "O", "K", "\r", "\n", "C", "o", "n", "t", "e", "n", "t", "-", "T", "y", "p", "e", ":", " ", "t", "e", "x", "t", "/", "p", "l", "a", "i", "n", "\r", "\n", "C", "o", "n", "t", "e", "n", "t", "-", "L", "e", "n", "g", "t", "h", ":", " ">>
    \o Decimal(Len(body)) \o <<"\r", "\n", "\r", "\n">> \o body

\* path begins with the bytes of prefix
HasPrefix(path, prefix) ==
    Len(path) >= Len(prefix) /\ SubSeq(path, 1, Len(prefix)) = prefix

\* path without its first n bytes
Suffix(path, n) == SubSeq(path, n + 1, Len(path))

\* the routes whose predicate holds for path
Matching(path) ==
    (IF path = <<"/">> THEN {"root"} ELSE {})
    \cup (IF HasPrefix(path, <<"/", "e", "c", "h", "o", "/">>) THEN {"echo"} ELSE {})
    \cup (IF HasPrefix(path, <<"/", "u", "s", "e", "r", "-", "a", "g", "e", "n", "t">>) THEN {"user-agent"} ELSE {})
    \cup (IF HasPrefix(path, <<"/", "f", "i", "l", "e", "s", "/">>) THEN {"files"} ELSE {})

\* the value of the first header of req named User-Agent in any letter
\* case, as a set: empty if there is none
FirstUserAgent(req) ==
    {req.headers[i][2] : i \in {k \in 1..Len(req.headers) :
        /\ Lower(req.headers[k][1]) = <<"u", "s", "e", "r", "-", "a", "g", "e", "n", "t">>
        /\ \A j \in 1..(k - 1) : Lower(req.headers[j][1]) # <<"u", "s", "e", "r", "-", "a", "g", "e", "n", "t">>}}

\* C12: at most one route predicate holds for any path, and the request is
\* answered by the handler of the one that holds: root for `/` whatever
\* the method, echo for `/echo/...`, user-agent for `/user-agent...`, for
\* `/files/...` file-get on GET and file-post on POST (both reach the
\* filesystem once the filename is validated) and not-found on any other
\* method, and not-found for every other path.
C12_ExactlyOneHandler ==
    \A c \in DOMAIN pc : \A i \in 1..Len(served[c]) :
        LET s == served[c][i]
            path == s.req.path
            valid == OneNormalComponent(Suffix(path, 7))
        IN  /\ Cardinality(Matching(path)) <= 1
            /\ (Done(c, i) /\ Matching(path) = {"root"})
               => s.wrote = OkTextBytes(<<>>) /\ s.calls = <<>>
            /\ (Done(c, i) /\ Matching(path) = {"echo"})
               => s.wrote = OkTextBytes(Suffix(path, 6)) /\ s.calls = <<>>
            /\ (Done(c, i) /\ Matching(path) = {"user-agent"})
               => /\ s.calls = <<>>
                  /\ \A ua \in FirstUserAgent(s.req) : s.wrote = OkTextBytes(ua)
                  /\ FirstUserAgent(s.req) = {} => s.wrote = NotFoundBytes
            /\ (Done(c, i) /\ Matching(path) = {"files"})
               => IF valid /\ s.req.method = <<"G", "E", "T">>
                  THEN s.calls[1] = call("metadata", FilesDir \o <<"/">> \o Suffix(path, 7))
                  ELSE IF valid /\ s.req.method = <<"P", "O", "S", "T">>
                  THEN s.calls = <<call("write", FilesDir \o <<"/">> \o Suffix(path, 7))>>
                  ELSE s.calls = <<>> /\ s.wrote = NotFoundBytes
            /\ (Done(c, i) /\ Matching(path) = {})
               => s.wrote = NotFoundBytes /\ s.calls = <<>>

\* a path that holds `/echo/` after the user-agent prefix has been
\* answered by the user-agent handler
C12_Witness ==
    /\ Len(served[1]) = 1
    /\ ~InFlight(1)
    /\ served[1][1].req.path = <<"/", "u", "s", "e", "r", "-", "a", "g", "e", "n", "t", "/", "e", "c", "h", "o", "/">>
    /\ served[1][1].req.method = <<"P", "U", "T">>
    /\ served[1][1].wrote = OkTextBytes(<<"u">>)

\* the reply of the root handler, byte for byte
RootBytes ==
    <<"H", "T", "T", "P", "/", "1", ".", "1", " ", "2", "0", "0", " ", "O", "K", "\r", "\n", "C", "o", "n", "t", "e", "n", "t", "-", "T", "y", "p", "e", ":", " ", "t", "e", "x", "t", "/", "p", "l", "a", "i", "n", "\r", "\n", "C", "o", "n", "t", "e", "n", "t", "-", "L", "e", "n", "g", "t", "h", ":", " ", "0", "\r", "\n", "\r", "\n">>

\* C13: a request with the exact path `/` is answered 200, text/plain,
\* Content-Length 0, no body, whatever its method and whether or not it
\* has a body; and parsing a request takes from the connection exactly the
\* bytes of that request, a body declared by Content-Length included, so
\* that what is left starts at the next request.
C13_RootAnyMethodBodyConsumed ==
    /\ [](\A c \in DOMAIN pc : \A i \in 1..Len(served[c]) :
            (served[c][i].req.path = <<"/">> /\ Done(c, i))
            => /\ served[c][i].wrote = RootBytes
               /\ served[c][i].calls = <<>>
               /\ served[c][i].loop = 1)
    /\ [][\A c \in DOMAIN pc :
            Len(served'[c]) = Len(served[c]) + 1
            => \E m \in RootRequests :
                  /\ inbuf[c] = m \o inbuf'[c]
                  /\ \E method \in {<<"G", "E", "T">>, <<"P", "O", "S", "T">>, <<"D", "E", "L", "E", "T", "E">>} :
                        /\ HasPrefix(m, method \o <<" ">>)
                        /\ served'[c][Len(served'[c])].req.method = method
                  /\ HasPrefix(m, served'[c][Len(served'[c])].req.method \o <<" ">>
                                    \o served'[c][Len(served'[c])].req.path \o <<" ">>)
                  /\ \A b \in {<<"b">>, <<"h", "i">>} :
                        m = RequestOf(served'[c][Len(served'[c])].req.method, <<"/">>, b)
                        => served'[c][Len(served'[c])].req.body = Some(b)]_vars

\* a POST to `/` with a body and an echo request have been sent back to
\* back; both are answered, the POST by the root handler
C13_Witness ==
    /\ Len(served[1]) = 2
    /\ ~InFlight(1)
    /\ served[1][1].req.method = <<"P", "O", "S", "T">>
    /\ served[1][1].req.body = Some(<<"h", "i">>)
    /\ out[1] = RootBytes \o EchoBytes

\* The step by which the loop takes up an echo request for a string of
\* the set strings parses it as a GET of `/echo/` followed by that string.
EchoParsed(strings) ==
    \A c \in DOMAIN pc : \A s \in strings :
        (/\ pc[c] = "AWAITING_REQUEST"
         /\ inbuf[c] = EchoRequest(s)
         /\ pc'[c] # pc[c])
        => /\ pc'[c] = "DISPATCHING"
           /\ is_some(request'[c])
           /\ unwrap(request'[c]).method = <<"G", "E", "T">>
           /\ unwrap(request'[c]).path = <<"/", "e", "c", "h", "o", "/">> \o s

\* Every request for a path `/echo/{s}` is answered 200, text/plain, with
\* the length of s as Content-Length and s itself, undecoded, as the body.
EchoAnswered ==
    \A c \in DOMAIN pc : \A i \in 1..Len(served[c]) :
        (HasPrefix(served[c][i].req.path, <<"/", "e", "c", "h", "o", "/">>) /\ Done(c, i))
        => served[c][i].wrote = OkTextBytes(Suffix(served[c][i].req.path, 6))

\* C14 as stated: GET /echo/{s} returns 200 with body s for all strings s.
C14_EchoAnyString ==
    [][EchoParsed(EchoStrings)]_vars /\ []EchoAnswered

\* C14, amended: GET /echo/{s} returns 200, text/plain, Content-Length the
\* byte length of s and body s (no decoding), the empty s included, for
\* all strings s without whitespace; the echo handler itself, given any
\* string s, returns that response.
C14_EchoWithoutWhitespace ==
    /\ [][EchoParsed({s \in EchoStrings : \A k \in 1..Len(s) : s[k] \notin WhiteSpace})]_vars
    /\ []EchoAnswered
    /\ [](\A s \in EchoStrings : build_raw(handle_echo(s)) = OkTextBytes(s))

\* the string `%/` has been echoed as it is
C14_Witness ==
    /\ Len(served[1]) = 1
    /\ ~InFlight(1)
    /\ served[1][1].req.path = <<"/", "e", "c", "h", "o", "/", "%", "/">>
    /\ out[1] = <<"H", "T", "T", "P", "/", "1", ".", "1", " ", "2", "0", "0", " ", "O", "K", "\r", "\n", "C", "o", "n", "t", "e", "n", "t", "-", "T", "y", "p", "e", ":", " ", "t", "e", "x", "t", "/", "p", "l", "a", "i", "n", "\r", "\n", "C", "o", "n", "t", "e", "n", "t", "-", "L", "e", "n", "g", "t", "h", ":", " ", "2", "\r", "\n", "\r", "\n", "%", "/">>

\* C15: a request to the user-agent route is answered 200 with the value
\* of its first header named User-Agent, in any letter case, as the body,
\* and 404 if it has no such header; the value is the one the header line
\* holds after the first colon, without the blanks around it.
C15_UserAgentFirstHeader ==
    /\ [](\A c \in DOMAIN pc : \A i \in 1..Len(served[c]) :
            (Matching(served[c][i].req.path) = {"user-agent"} /\ Done(c, i))
            => /\ Cardinality(FirstUserAgent(served[c][i].req)) <= 1
               /\ \A ua \in FirstUserAgent(served[c][i].req) :
                     served[c][i].wrote = OkTextBytes(ua)
               /\ FirstUserAgent(served[c][i].req) = {}
                  => served[c][i].wrote = NotFoundBytes)
    /\ [][\A c \in DOMAIN pc :
            (pc[c] = "AWAITING_REQUEST" /\ pc'[c] = "DISPATCHING")
            => LET req == unwrap(request'[c])
               IN  /\ HasPrefix(inbuf[c], UserAgentRequest(<<"U", "S", "E", "R", "-", "A", "G", "E", "N", "T", ":", " ", " ", " ", "Y", " ", "\r", "\n">>))
                      => FirstUserAgent(req) = {<<"Y">>}
                   /\ HasPrefix(inbuf[c], UserAgentRequest(<<"H", "o", "s", "t", ":", " ", "t", "\r", "\n", "U", "s", "e", "r", "-", "A", "g", "e", "n", "t", ":", " ", "a", "\r", "\n", "u", "s", "e", "r", "-", "a", "g", "e", "n", "t", ":", " ", "b", "\r", "\n">>))
                      => FirstUserAgent(req) = {<<"a">>}
                   /\ HasPrefix(inbuf[c], UserAgentRequest(<<"U", "s", "e", "r", "-", "A", "g", "e", "n", "t", ":", "\r", "\n">>))
                      => FirstUserAgent(req) = {<<>>}
                   /\ HasPrefix(inbuf[c], UserAgentRequest(<<"U", "s", "e", "r", "-", "A", "g", "e", "n", "t", ":", " ", "a", ":", "b", "\r", "\n">>))
                      => FirstUserAgent(req) = {<<"a", ":", "b">>}
                   /\ HasPrefix(inbuf[c], UserAgentRequest(<<"U", "s", "e", "r", "-", "A", "g", "e", "n", "t", "s", ":", " ", "q", "\r", "\n", "X", "-", "U", "s", "e", "r", "-", "A", "g", "e", "n", "t", ":", " ", "r", "\r", "\n">>))
                      => FirstUserAgent(req) = {}]_vars

\* a request with two User-Agent headers, spelled differently, has been
\* answered with the first one's value, and one without the header with 404
C15_Witness ==
    /\ Len(served[1]) = 2
    /\ ~InFlight(1)
    /\ Len(served[1][1].req.headers) = 3
    /\ out[1] = <<"H", "T", "T", "P", "/", "1", ".", "1", " ", "2", "0", "0", " ", "O", "K", "\r", "\n", "C", "o", "n", "t", "e", "n", "t", "-", "T", "y", "p", "e", ":", " ", "t", "e", "x", "t", "/", "p", "l", "a", "i", "n", "\r", "\n", "C", "o", "n", "t", "e", "n", "t", "-", "L", "e", "n", "g", "t", "h", ":", " ", "1", "\r", "\n", "\r", "\n", "a">>
                \o NotFoundBytes

\* req is a GET of /files/{name} with a name the validator accepts
IsValidFileGet(req) ==
    /\ req.method = <<"G", "E", "T">>
    /\ IsFileRequest(req)
    /\ OneNormalComponent(FileName(req))

\* name, taken as it is written, is a regular file of the directory fs
IsRegularFile(fs, name) == name \in DOMAIN fs /\ fs[name].kind = "file"

\* C16: a GET of /files/{name}, name being an existing regular file, is
\* answered with exactly: the status line 200 OK, Content-Type:
\* application/octet-stream, one Content-Length with the file's length, a
\* blank line and the file's bytes, whatever they are (none for an empty
\* file); the handler streams them and the loop writes nothing more.
C16_FileGetBytes ==
    \A c \in DOMAIN pc : \A i \in 1..Len(served[c]) :
        LET s == served[c][i]
        IN  (/\ Done(c, i)
             /\ IsValidFileGet(s.req)
             /\ IsRegularFile(s.files, FileName(s.req)))
            => /\ s.wrote = FileBytes(s.files[FileName(s.req)].data)
               /\ s.stream = 1
               /\ s.loop = 0
               /\ ~s.io

\* the empty file, then the file whose bytes look like a blank line and a
\* header, have been served on one connection
C16_Witness ==
    /\ Len(served[1]) = 2
    /\ ~InFlight(1)
    /\ FileName(served[1][1].req) = <<"e">>
    /\ FileName(served[1][2].req) = <<"b">>
    /\ out[1] = <<"H", "T", "T", "P", "/", "1", ".", "1", " ", "2", "0", "0", " ", "O", "K", "\r", "\n", "C", "o", "n", "t", "e", "n", "t", "-", "T", "y", "p", "e", ":", " ", "a", "p", "p", "l", "i", "c", "a", "t", "i", "o", "n", "/", "o", "c", "t", "e", "t", "-", "s", "t", "r", "e", "a", "m", "\r", "\n", "C", "o", "n", "t", "e", "n", "t", "-", "L", "e", "n", "g", "t", "h", ":", " ", "0", "\r", "\n", "\r", "\n">>
                \o <<"H", "T", "T", "P", "/", "1", ".", "1", " ", "2", "0", "0", " ", "O", "K", "\r", "\n", "C", "o", "n", "t", "e", "n", "t", "-", "T", "y", "p", "e", ":", " ", "a", "p", "p", "l", "i", "c", "a", "t", "i", "o", "n", "/", "o", "c", "t", "e", "t", "-", "s", "t", "r", "e", "a", "m", "\r", "\n", "C", "o", "n", "t", "e", "n", "t", "-", "L", "e", "n", "g", "t", "h", ":", " ", "6", "\r", "\n", "\r", "\n", "\r", "\n", "\r", "\n", "A", ":">>

\* C17: a GET of /files/{name} with a valid name that is not an existing
\* regular file (missing, a directory, or written with a trailing
\* separator) is answered with the 404 Response, written once by the loop;
\* nothing is streamed, no file is opened or read, and unless the request
\* asks for the close the loop goes back to awaiting the next request.
C17_FileGetNotFound ==
    /\ [](\A c \in DOMAIN pc : \A i \in 1..Len(served[c]) :
            LET s == served[c][i]
            IN  (/\ Done(c, i)
                 /\ IsValidFileGet(s.req)
                 /\ ~IsRegularFile(s.files, FileName(s.req)))
                => /\ s.wrote = NotFoundBytes
                   /\ s.stream = 0
                   /\ s.loop = 1
                   /\ ~s.io
                   /\ \A k \in 1..Len(s.calls) : s.calls[k].op = "metadata")
    /\ [][\A c \in DOMAIN pc :
            (/\ pc[c] \in {"DISPATCHING", "WRITE_RESPONSE"}
             /\ IsValidFileGet(unwrap(request[c]))
             /\ ~IsRegularFile(files, FileName(unwrap(request[c]))))
            => \/ pc'[c] = pc[c] /\ out'[c] = out[c]
               \/ pc[c] = "DISPATCHING" /\ pc'[c] = "WRITE_RESPONSE"
               \/ /\ pc[c] = "WRITE_RESPONSE"
                  /\ out'[c] = out[c] \o NotFoundBytes
                  /\ pc'[c] = (IF CarriesClose(unwrap(request[c]))
                               THEN "CLOSED" ELSE "AWAITING_REQUEST")]_vars

\* a GET of the directory, named with a trailing separator, was answered
\* 404, and the next request on the same connection got the file
C17_Witness ==
    /\ Len(served[1]) = 2
    /\ ~InFlight(1)
    /\ FileName(served[1][1].req) = <<"d", "/">>
    /\ FileName(served[1][2].req) = <<"f">>
    /\ out[1] = NotFoundBytes \o FileBytes(<<"o", "l", "d">>)

\* req is a POST of /files/{name} with a name the validator accepts
IsValidFilePost(req) ==
    /\ req.method = <<"P", "O", "S", "T">>
    /\ IsFileRequest(req)
    /\ OneNormalComponent(FileName(req))

\* the body of req, an absent one being empty
BodyOf(req) == IF is_some(req.body) THEN unwrap(req.body) ELSE <<>>

\* the entry of the served directory that a valid name resolves to
EntryOf(name) == split(name, "/")[1]

\* the handler of the valid POST parsed on c returns in this step
RoutesPost(c) ==
    /\ pc[c] = "DISPATCHING"
    /\ pc'[c] # "DISPATCHING"
    /\ IsValidFilePost(unwrap(request[c]))

\* the step leaves the body of c's request as the whole content of the
\* file it names, every other entry as it was, and a Response to write
PostWrites(c) ==
    LET req == unwrap(request[c])
    IN  /\ files' = (EntryOf(FileName(req)) :> [kind |-> "file", data |-> BodyOf(req)])
                    @@ files
        /\ pc'[c] = "WRITE_RESPONSE"

\* the step changes no file, writes nothing and ends the connection
PostFails(c) ==
    /\ files' = files
    /\ out'[c] = out[c]
    /\ pc'[c] = "CLOSED"
    /\ result'[c] = [ret |-> "Err", by |-> "io"]

\* bytes is a 201 Created head and nothing after its blank line
Created201(bytes) ==
    /\ HasPrefix(bytes, <<"H", "T", "T", "P", "/", "1", ".", "1", " ", "2", "0", "1", " ", "C", "r", "e", "a", "t", "e", "d", "\r", "\n">>)
    /\ Len(bytes) >= 4
    /\ \A k \in 1..(Len(bytes) - 3) :
          SubSeq(bytes, k, k + 3) = <<"\r", "\n", "\r", "\n">> <=> k = Len(bytes) - 3

\* a POST without body that was answered is followed on its connection by
\* a GET of the same name only with the answer 200, Content-Length 0
EmptyPostThenGet ==
    \A c \in DOMAIN pc : \A i \in 1..(Len(served[c]) - 1) :
        (/\ Done(c, i + 1)
         /\ IsValidFilePost(served[c][i].req)
         /\ ~is_some(served[c][i].req.body)
         /\ served[c][i].wrote # <<>>
         /\ IsValidFileGet(served[c][i + 1].req)
         /\ FileName(served[c][i + 1].req) = FileName(served[c][i].req))
        => served[c][i + 1].wrote = FileBytes(<<>>)

\* name denotes something a write can create or replace
Writable(fs, name) ==
    /\ ~Contains(name, <<"/">>)
    /\ name \in DOMAIN fs => fs[name].kind = "file"

\* C18 as stated: every POST of /files/{name} with a valid name leaves the
\* body as the whole content of the file and is answered 201 without body;
\* after a POST without body a GET gets 200 with Content-Length 0.
C18_PostAlwaysWrites ==
    /\ [][\A c \in DOMAIN pc : RoutesPost(c) => PostWrites(c)]_vars
    /\ [](\A c \in DOMAIN pc : \A i \in 1..Len(served[c]) :
            (Done(c, i) /\ IsValidFilePost(served[c][i].req))
            => Created201(served[c][i].wrote) /\ served[c][i].loop = 1)
    /\ []EmptyPostThenGet

\* C18, amended: a POST of /files/{name} with a valid name that has no
\* separator and is not an existing directory leaves the body (nothing, if
\* there is none) as the whole content of the file, creating or replacing
\* it, and is answered 201 without body, and a GET after a POST without
\* body gets 200 with Content-Length 0; for any other valid name the write
\* fails: no file changes, nothing is written to the connection and the
\* connection ends with the error.
C18_PostWritesUnlessWriteFails ==
    /\ [][\A c \in DOMAIN pc :
            RoutesPost(c)
            => IF Writable(files, FileName(unwrap(request[c])))
               THEN PostWrites(c) ELSE PostFails(c)]_vars
    /\ [](\A c \in DOMAIN pc : \A i \in 1..Len(served[c]) :
            (Done(c, i) /\ IsValidFilePost(served[c][i].req))
            => IF Writable(served[c][i].files, FileName(served[c][i].req))
               THEN /\ Created201(served[c][i].wrote)
                    /\ served[c][i].loop = 1
                    /\ served[c][i].stream = 0
               ELSE served[c][i].wrote = <<>> /\ served[c][i].io)
    /\ []EmptyPostThenGet

\* the file f, three bytes long, was replaced by a POST without
\* Content-Length and the GET after it got the empty file
C18_Witness ==
    /\ Len(served[1]) = 2
    /\ ~InFlight(1)
    /\ IsValidFilePost(served[1][1].req)
    /\ served[1][1].req.headers = << <<<<"H", "o", "s", "t">>, <<"t", "e", "s", "t">>>> >>
    /\ served[1][1].files[<<"f">>].data = <<"o", "l", "d">>
    /\ files[<<"f">>].data = <<>>
    /\ Created201(served[1][1].wrote)
    /\ out[1] = served[1][1].wrote \o FileBytes(<<>>)

\* bytes start with the status line of a 200, a 201 or a 404
HasStatus(bytes) ==
    \/ HasPrefix(bytes, <<"H", "T", "T", "P", "/", "1", ".", "1", " ", "2", "0", "0", " ", "O", "K", "\r", "\n">>)
    \/ HasPrefix(bytes, <<"H", "T", "T", "P", "/", "1", ".", "1", " ", "2", "0", "1", " ", "C", "r", "e", "a", "t", "e", "d", "\r", "\n">>)
    \/ HasPrefix(bytes, <<"H", "T", "T", "P", "/", "1", ".", "1", " ", "4", "0", "4", " ", "N", "o", "t", " ", "F", "o", "u", "n", "d", "\r", "\n">>)

\* the well-formed requests among those the client sends
WellFormedRequests ==
    Requests \ {Bad_RequestLine, Bad_Header, Bad_ContentLength, Bad_ShortBody}

\* buf is a sequence of well-formed requests, each sent whole
RECURSIVE WellFormedStream(_)
WellFormedStream(buf) ==
    \/ buf = <<>>
    \/ \E m \in WellFormedRequests :
          HasPrefix(buf, m) /\ WellFormedStream(Suffix(buf, Len(m)))

\* the connection c ends in this step with an error although the bytes
\* waiting to be read are well-formed requests
ClosesWellFormed(c) ==
    /\ pc[c] = "AWAITING_REQUEST"
    /\ pc'[c] = "CLOSED"
    /\ result'[c].ret = "Err"
    /\ WellFormedStream(inbuf[c])

StatusLineOf(r) ==
    <<"H", "T", "T", "P", "/", "1", ".", "1", " ">>
    \o (CASE r.status_code = 200 -> <<"2", "0", "0">>
          [] r.status_code = 201 -> <<"2", "0", "1">>
          [] r.status_code = 204 -> <<"2", "0", "4">>
          [] r.status_code = 404 -> <<"4", "0", "4">>)
    \o <<" ">> \o r.reason \o <<"\r", "\n">>

\* the first n headers of hs, one `name: value` line each, in their order
RECURSIVE LinesOf(_, _)
LinesOf(hs, n) ==
    IF n = 0 THEN <<>>
    ELSE LinesOf(hs, n - 1) \o hs[n][1] \o <<":", " ">> \o hs[n][2] \o <<"\r", "\n">>

\* r has a header named Content-Length, in any letter case
HasContentLength(r) ==
    \E i \in 1..Len(r.headers) : Lower(r.headers[i][1]) = <<"c", "o", "n", "t", "e", "n", "t", "-", "l", "e", "n", "g", "t", "h">>

\* C20: the full serialization of a Response that is not status-only and
\* has no header named Content-Length in any letter case is the status
\* line, the caller's headers as `name: value` lines in insertion order,
\* one Content-Length line with the body's length in bytes (0 for an empty
\* body), a blank line, and the body bytes.
C20_InjectedContentLength ==
    (sDone /\ ~sResp.status_only /\ ~HasContentLength(sResp))
    => sRaw = StatusLineOf(sResp)
              \o LinesOf(sResp.headers, Len(sResp.headers))
              \o <<"C", "o", "n", "t", "e", "n", "t", "-", "L", "e", "n", "g", "t", "h", ":", " ">> \o Decimal(Len(sResp.body)) \o <<"\r", "\n">>
              \o <<"\r", "\n">>
              \o sResp.body

\* a Response with two headers of the same name in different case and a
\* body of twelve bytes has been serialized
C20_Witness ==
    /\ sDone
    /\ sResp.headers = << <<<<"x", "-", "a">>, <<"2">>>>, <<<<"X", "-", "A">>, <<"1">>>> >>
    /\ sRaw = <<"H", "T", "T", "P", "/", "1", ".", "1", " ", "4", "0", "4", " ", "N", "o", "t", " ", "F", "o", "u", "n", "d", "\r", "\n", "x", "-", "a", ":", " ", "2", "\r", "\n", "X", "-", "A", ":", " ", "1", "\r", "\n", "C", "o", "n", "t", "e", "n", "t", "-", "L", "e", "n", "g", "t", "h", ":", " ", "1", "2", "\r", "\n", "\r", "\n", "0", "1", "2", "3", "4", "5", "6", "7", "8", "9", "\r", "\n">>

\* how often sub occurs in bytes
Count(bytes, sub) ==
    Cardinality({k \in 1..(Len(bytes) - Len(sub) + 1) :
                    SubSeq(bytes, k, k + Len(sub) - 1) = sub})

\* the headers of r named Content-Length in any letter case
ContentLengthHeaders(r) ==
    {i \in 1..Len(r.headers) : Lower(r.headers[i][1]) = <<"c", "o", "n", "t", "e", "n", "t", "-", "l", "e", "n", "g", "t", "h">>}

\* C21 as stated: a Response with a header named Content-Length, in any
\* letter case, serializes in full and header-only with at most one
\* Content-Length line, and each such header's line is in the output with
\* the caller's value unless the Response is status-only.
C21_NeverASecondLine ==
    (sDone /\ HasContentLength(sResp))
    => /\ Count(Lower(sRaw), <<"c", "o", "n", "t", "e", "n", "t", "-", "l", "e", "n", "g", "t", "h">>) <= 1
       /\ Count(Lower(sHead), <<"c", "o", "n", "t", "e", "n", "t", "-", "l", "e", "n", "g", "t", "h">>) <= 1
       /\ ~sResp.status_only
          => \A i \in ContentLengthHeaders(sResp) :
                /\ Contains(sRaw, sResp.headers[i][1] \o <<":", " ">> \o sResp.headers[i][2] \o <<"\r", "\n">>)
                /\ Contains(sHead, sResp.headers[i][1] \o <<":", " ">> \o sResp.headers[i][2] \o <<"\r", "\n">>)

\* C21, amended: the serializers add no Content-Length line to a Response
\* that has one and change none: in full and header-only the head is the
\* status line, the caller's headers unchanged in their order and the
\* blank line, so there are as many Content-Length lines as the caller
\* set headers of that name (one for one, two for two), whatever the
\* length of the body; a status-only Response has none.
C21_NoLineAddedOrChanged ==
    (sDone /\ HasContentLength(sResp))
    => /\ Count(Lower(sRaw), <<"c", "o", "n", "t", "e", "n", "t", "-", "l", "e", "n", "g", "t", "h">>)
            = (IF sResp.status_only THEN 0 ELSE Cardinality(ContentLengthHeaders(sResp)))
       /\ Count(Lower(sHead), <<"c", "o", "n", "t", "e", "n", "t", "-", "l", "e", "n", "g", "t", "h">>)
            = (IF sResp.status_only THEN 0 ELSE Cardinality(ContentLengthHeaders(sResp)))
       /\ ~sResp.status_only
          => /\ sHead = StatusLineOf(sResp)
                        \o LinesOf(sResp.headers, Len(sResp.headers))
                        \o <<"\r", "\n">>
             /\ sRaw = sHead \o sResp.body

\* a Response with Content-Length: 5 and a body of seven bytes has been
\* serialized with that one line
C21_Witness ==
    /\ sDone
    /\ sResp.headers = << <<<<"C", "o", "n", "t", "e", "n", "t", "-", "L", "e", "n", "g", "t", "h">>, <<"5">>>> >>
    /\ sRaw = <<"H", "T", "T", "P", "/", "1", ".", "1", " ", "2", "0", "0", " ", "O", "K", "\r", "\n", "C", "o", "n", "t", "e", "n", "t", "-", "L", "e", "n", "g", "t", "h", ":", " ", "5", "\r", "\n", "\r", "\n", "p", "a", "y", "l", "o", "a", "d">>
    /\ sHead = <<"H", "T", "T", "P", "/", "1", ".", "1", " ", "2", "0", "0", " ", "O", "K", "\r", "\n", "C", "o", "n", "t", "e", "n", "t", "-", "L", "e", "n", "g", "t", "h", ":", " ", "5", "\r", "\n", "\r", "\n">>

\* C22: a status-only Response serializes, in full and header-only, to
\* its status line and the blank line and nothing else, whatever headers
\* and body were set on it; with code 404 that is exactly
\* `HTTP/1.1 404 Not Found\r\n\r\n`.
C22_StatusOnlyBytes ==
    (sDone /\ sResp.status_only)
    => /\ sRaw = StatusLineOf(sResp) \o <<"\r", "\n">>
       /\ sHead = StatusLineOf(sResp) \o <<"\r", "\n">>
       /\ sResp.status_code = 404
          => /\ sRaw = <<"H", "T", "T", "P", "/", "1", ".", "1", " ", "4", "0", "4", " ", "N", "o", "t", " ", "F", "o", "u", "n", "d", "\r", "\n", "\r", "\n">>
             /\ sHead = <<"H", "T", "T", "P", "/", "1", ".", "1", " ", "4", "0", "4", " ", "N", "o", "t", " ", "F", "o", "u", "n", "d", "\r", "\n", "\r", "\n">>

\* a status-only 404 on which two headers and a body were set has been
\* serialized
C22_Witness ==
    /\ sDone
    /\ sResp.status_only
    /\ Len(sResp.headers) = 2
    /\ sResp.body = <<"p", "a", "y", "l", "o", "a", "d">>
    /\ sRaw = <<"H", "T", "T", "P", "/", "1", ".", "1", " ", "4", "0", "4", " ", "N", "o", "t", " ", "F", "o", "u", "n", "d", "\r", "\n", "\r", "\n">>

\* the position after the first blank line of bytes, 0 if there is none
EndOfHead(bytes) ==
    IF \E k \in 1..(Len(bytes) - 3) : SubSeq(bytes, k, k + 3) = <<"\r", "\n", "\r", "\n">>
    THEN 3 + CHOOSE k \in 1..(Len(bytes) - 3) :
                /\ SubSeq(bytes, k, k + 3) = <<"\r", "\n", "\r", "\n">>
                /\ \A j \in 1..(k - 1) : SubSeq(bytes, j, j + 3) # <<"\r", "\n", "\r", "\n">>
    ELSE 0

\* C23: for every Response the header-only serialization is the full one
\* up to and including its blank line, and the full one is the
\* header-only one followed by the body, or by nothing if the Response is
\* status-only.
C23_HeadIsPrefixOfRaw ==
    sDone
    => /\ EndOfHead(sRaw) > 0
       /\ sHead = SubSeq(sRaw, 1, EndOfHead(sRaw))
       /\ sRaw = sHead \o (IF sResp.status_only THEN <<>> ELSE sResp.body)

\* a Response without Content-Length and with a body that ends in a line
\* end has been serialized both ways
C23_Witness ==
    /\ sDone
    /\ ~sResp.status_only
    /\ ~HasContentLength(sResp)
    /\ sResp.body = <<"0", "1", "2", "3", "4", "5", "6", "7", "8", "9", "\r", "\n">>
    /\ Len(sRaw) = Len(sHead) + 12

\* the positions of the headers of req whose name is name but for the
\* case of its letters
NamedLike(req, name) ==
    {i \in 1..Len(req.headers) : Lower(req.headers[i][1]) = Lower(name)}

\* C24: for every header sequence and every name, header lookup returns
\* the value of the first pair whose name equals the name but for letter
\* case, whatever pairs of that name follow, and nothing when there is no
\* such pair; the header sequence is the same after the lookup.
C24_LookupFirstMatch ==
    /\ [](hDone
          => IF NamedLike(hRequest, hName) = {} THEN hValue = <<>>
             ELSE \E i \in NamedLike(hRequest, hName) :
                     /\ \A j \in NamedLike(hRequest, hName) : i <= j
                     /\ hValue = <<hRequest.headers[i][2]>>)
    /\ [][hRequest' = hRequest]_vars

\* X-CUSTOM has been looked up in a Request holding x-custom before
\* X-Custom, and the value of the former was returned
C24_Witness ==
    /\ hDone
    /\ hName = <<"X", "-", "C", "U", "S", "T", "O", "M">>
    /\ hRequest.headers = << <<<<"x", "-", "c", "u", "s", "t", "o", "m">>, <<"s", "e", "c", "o", "n", "d">>>>, <<<<"X", "-", "C", "u", "s", "t", "o", "m">>, <<"f", "i", "r", "s", "t">>>> >>
    /\ hValue = <<<<"s", "e", "c", "o", "n", "d">>>>

\* the first line of bytes with its terminator, or all of bytes if they
\* hold no line feed
FirstLine(bytes) ==
    IF \E k \in 1..Len(bytes) : bytes[k] = "\n"
    THEN SubSeq(bytes, 1, CHOOSE k \in 1..Len(bytes) :
                             bytes[k] = "\n" /\ \A j \in 1..(k - 1) : bytes[j] # "\n")
    ELSE bytes

\* the positions at which a run of non-whitespace bytes of line starts
TokenStarts(line) ==
    {k \in 1..Len(line) :
        line[k] \notin {" ", "\t", "\r", "\n"}
        /\ (k = 1 \/ line[k - 1] \in {" ", "\t", "\r", "\n"})}

\* the run of non-whitespace bytes of line that starts at position from
TokenFrom(line, from) ==
    SubSeq(line, from,
           CHOOSE to \in from..Len(line) :
              /\ \A j \in from..to : line[j] \notin {" ", "\t", "\r", "\n"}
              /\ to = Len(line) \/ line[to + 1] \in {" ", "\t", "\r", "\n"})

\* the n-th run of non-whitespace bytes of line, n being at most their number
Token(line, n) ==
    TokenFrom(line, CHOOSE k \in TokenStarts(line) :
                       Cardinality({j \in TokenStarts(line) : j < k}) = n - 1)

\* what C25 asks of the result of a parser given pInput; ok is the status
\* with which that parser returns a Request
RequestLineTokens(parsed, ok) ==
    /\ Cardinality(TokenStarts(FirstLine(pInput))) # 3
       => parsed = [status |-> "Err", error |-> "invalid request line"]
    /\ Cardinality(TokenStarts(FirstLine(pInput))) = 3
       => /\ parsed.status = "Err" => parsed.error # "invalid request line"
          /\ parsed.status \in {ok, "Err"}
          /\ parsed.status = ok
             => /\ parsed.request.method = Token(FirstLine(pInput), 1)
                /\ parsed.request.path = Token(FirstLine(pInput), 2)
                /\ parsed.request.http_version = Token(FirstLine(pInput), 3)

\* C25: when the parser has read a request line, it fails with `invalid
\* request line` if the line does not hold exactly three runs of
\* non-whitespace bytes (none, one, two, four or more), and otherwise does
\* not; the method, path and version of the Request it returns are those
\* three runs byte for byte, whatever their case, escapes or version.
C25_RequestLineTokens ==
    (pDone /\ FirstLine(pInput) # <<>>)
    => /\ RequestLineTokens(pStream, "Ok")
       /\ RequestLineTokens(pResult, "Some")

\* a request line in odd case, with an escape in its path and an unknown
\* version, has been parsed into exactly its three tokens
C25_Witness ==
    /\ pDone
    /\ pInput = <<"g", "E", "t", " ", "/", "A", "%", "2", "0", "b", " ", "h", "t", "t", "p", "/", "9", "\r", "\n">>
    /\ pStream.status = "Ok"
    /\ pResult.status = "Some"
    /\ pResult.request.method = <<"g", "E", "t">>
    /\ pResult.request.path = <<"/", "A", "%", "2", "0", "b">>
    /\ pResult.request.http_version = <<"h", "t", "t", "p", "/", "9">>

\* the positions of the line feeds of bytes
LineFeeds(bytes) == {k \in 1..Len(bytes) : bytes[k] = "\n"}

\* the position of the n-th line feed of bytes, 0 for n = 0
LineFeedAt(bytes, n) ==
    IF n = 0 THEN 0
    ELSE CHOOSE k \in LineFeeds(bytes) :
            Cardinality({j \in LineFeeds(bytes) : j <= k}) = n

\* the n-th line of bytes with its terminator; the last one, after the
\* last line feed, has none and may be empty
Line(bytes, n) ==
    SubSeq(bytes, LineFeedAt(bytes, n - 1) + 1,
           IF n <= Cardinality(LineFeeds(bytes)) THEN LineFeedAt(bytes, n)
           ELSE Len(bytes))

\* line without the carriage returns and line feeds at its end
Stripped(line) ==
    SubSeq(line, 1,
           IF \A k \in 1..Len(line) : line[k] \in {"\r", "\n"} THEN 0
           ELSE CHOOSE k \in 1..Len(line) :
                   /\ line[k] \notin {"\r", "\n"}
                   /\ \A j \in (k + 1)..Len(line) : line[j] \in {"\r", "\n"})

\* str without the whitespace at its two ends
Trimmed(str) ==
    IF \A k \in 1..Len(str) : str[k] \in {" ", "\t", "\r", "\n"} THEN <<>>
    ELSE SubSeq(str,
                CHOOSE a \in 1..Len(str) :
                   /\ str[a] \notin {" ", "\t", "\r", "\n"}
                   /\ \A j \in 1..(a - 1) : str[j] \in {" ", "\t", "\r", "\n"},
                CHOOSE b \in 1..Len(str) :
                   /\ str[b] \notin {" ", "\t", "\r", "\n"}
                   /\ \A j \in (b + 1)..Len(str) : str[j] \in {" ", "\t", "\r", "\n"})

\* the number of the line of bytes that ends the headers: the first line
\* after the request line that is empty once stripped, which the end of
\* the input is too
HeadersEnd(bytes) ==
    CHOOSE n \in 2..(Cardinality(LineFeeds(bytes)) + 2) :
       /\ n <= Cardinality(LineFeeds(bytes)) + 1 => Stripped(Line(bytes, n)) = <<>>
       /\ \A m \in 2..(n - 1) : Stripped(Line(bytes, m)) # <<>>

\* the position of the first colon of line, 0 if it has none
FirstColon(line) ==
    IF \A k \in 1..Len(line) : line[k] # ":" THEN 0
    ELSE CHOOSE k \in 1..Len(line) :
            line[k] = ":" /\ \A j \in 1..(k - 1) : line[j] # ":"

\* the pair of the header line line
PairOf(line) ==
    <<Trimmed(SubSeq(Stripped(line), 1, FirstColon(Stripped(line)) - 1)),
      Trimmed(SubSeq(Stripped(line), FirstColon(Stripped(line)) + 1, Len(Stripped(line))))>>

\* what C26 asks of the result of a parser given pInput; ok is the status
\* with which that parser returns a Request
HeaderLinesSplit(parsed, ok) ==
    IF \E n \in 2..(HeadersEnd(pInput) - 1) : FirstColon(Stripped(Line(pInput, n))) = 0
    THEN parsed = [status |-> "Err", error |-> "malformed header line"]
    ELSE /\ parsed.status \in {ok, "Err"}
         /\ parsed.status = "Err" => parsed.error # "malformed header line"
         /\ parsed.status = ok
            => parsed.request.headers
                 = [k \in 1..(HeadersEnd(pInput) - 2) |-> PairOf(Line(pInput, k + 1))]

\* C26: after a request line of three tokens, every line up to the first
\* one that is empty once its terminator is stripped (or to the end of
\* the input) is a header line: if one of them has no colon the parser
\* fails with `malformed header line`; otherwise the headers of the
\* Request are, in the order of the lines and with duplicates kept, the
\* trimmed text before the first colon and the trimmed text after it.
C26_HeaderLinesSplit ==
    (pDone /\ Cardinality(TokenStarts(FirstLine(pInput))) = 3)
    => /\ HeaderLinesSplit(pStream, "Ok")
       /\ HeaderLinesSplit(pResult, "Some")

\* two headers of the same name, the first with a second colon in its
\* value, and a third sent without a line end before the peer closed,
\* have been parsed
C26_Witness ==
    /\ pDone
    /\ pInput = <<"G", "E", "T", " ", "/", " ", "H", "T", "T", "P", "/", "1", ".", "1", "\r", "\n", "X", "-", "A", ":", " ", "1", ":", "2", "\r", "\n", "x", "-", "a", ":", " ", " ", "3", " ", "\r", "\n", "a", ":", " ">>
    /\ pResult.status = "Some"
    /\ pResult.request.headers
         = << <<<<"X", "-", "A">>, <<"1", ":", "2">>>>, <<<<"x", "-", "a">>, <<"3">>>>, <<<<"a">>, <<>> >> >>

\* the headers C26 describes for bytes
HeadersOf(bytes) ==
    [k \in 1..(HeadersEnd(bytes) - 2) |-> PairOf(Line(bytes, k + 1))]

\* the bytes after the line that ends the headers of bytes
AfterHeaders(bytes) ==
    SubSeq(bytes,
           (IF HeadersEnd(bytes) <= Cardinality(LineFeeds(bytes))
            THEN LineFeedAt(bytes, HeadersEnd(bytes)) ELSE Len(bytes)) + 1,
           Len(bytes))

\* value is written in decimal digits
IsNumber(value) ==
    /\ value # <<>>
    /\ \A k \in 1..Len(value) :
          value[k] \in {"0", "1", "2", "3", "4", "5", "6", "7", "8", "9"}

\* the number the first n decimal digits of value stand for
RECURSIVE NumberOf(_, _)
NumberOf(value, n) ==
    IF n = 0 THEN 0
    ELSE 10 * NumberOf(value, n - 1)
         + (CHOOSE d \in 0..9 :
               <<"0", "1", "2", "3", "4", "5", "6", "7", "8", "9">>[d + 1] = value[n])

\* the value of the first header of hs named Content-Length in any letter
\* case, as a set: empty if there is none
FirstContentLength(hs) ==
    {hs[i][2] : i \in {k \in 1..Len(hs) :
        /\ Lower(hs[k][1]) = <<"c", "o", "n", "t", "e", "n", "t", "-", "l", "e", "n", "g", "t", "h">>
        /\ \A j \in 1..(k - 1) : Lower(hs[j][1]) # <<"c", "o", "n", "t", "e", "n", "t", "-", "l", "e", "n", "g", "t", "h">>}}

\* parsed is a Request of status ok with the body given (<<>> for none,
\* <<b>> for the bytes b), and, where the parser keeps its reader, with
\* the bytes rest left to read
ParsedWith(parsed, ok, body, rest) ==
    /\ parsed.status = ok
    /\ parsed.request.body = body
    /\ ok = "Some" => parsed.rest = rest

\* what C27 asks of the result of a parser given pInput
BodyFramed(parsed, ok) ==
    IF FirstContentLength(HeadersOf(pInput)) = {}
    THEN ParsedWith(parsed, ok, <<>>, AfterHeaders(pInput))
    ELSE \A value \in FirstContentLength(HeadersOf(pInput)) :
           IF ~IsNumber(value)
           THEN parsed = [status |-> "Err", error |-> "parsing Content-Length header"]
           ELSE IF NumberOf(value, Len(value)) = 0
           THEN ParsedWith(parsed, ok, <<>>, AfterHeaders(pInput))
           ELSE IF Len(AfterHeaders(pInput)) >= NumberOf(value, Len(value))
           THEN ParsedWith(parsed, ok,
                           <<SubSeq(AfterHeaders(pInput), 1, NumberOf(value, Len(value)))>>,
                           SubSeq(AfterHeaders(pInput), NumberOf(value, Len(value)) + 1,
                                  Len(AfterHeaders(pInput))))
           ELSE pEof /\ parsed = [status |-> "Err", error |-> "reading request body"]

\* C27: after a request line and well-formed headers, the first header
\* named Content-Length in any letter case frames the body: a value that
\* is no decimal number is fatal; a number n > 0 makes the next n bytes
\* the body, and is fatal if the peer closes before them; 0 or no such
\* header gives no body. A Request returned leaves to be read exactly the
\* bytes after request line, headers, blank line and those n bytes.
C27_BodyFraming ==
    (/\ pDone
     /\ Cardinality(TokenStarts(FirstLine(pInput))) = 3
     /\ \A n \in 2..(HeadersEnd(pInput) - 1) : FirstColon(Stripped(Line(pInput, n))) # 0)
    => /\ BodyFramed(pStream, "Ok")
       /\ BodyFramed(pResult, "Some")

\* with `content-length: 1` before `Content-Length: 0`, one byte has been
\* read as the body and the byte after it left for the next request
C27_Witness ==
    /\ pDone
    /\ pInput = <<"P", "O", "S", "T", " ", "/", " ", "H", "T", "T", "P", "/", "1", ".", "1", "\r", "\n", "c", "o", "n", "t", "e", "n", "t", "-", "l", "e", "n", "g", "t", "h", ":", " ", "1", "\r", "\n", "C", "o", "n", "t", "e", "n", "t", "-", "L", "e", "n", "g", "t", "h", ":", " ", "0", "\r", "\n", "\n", "a", "1">>
    /\ pResult.status = "Some"
    /\ pResult.request.body = << <<"a">> >>
    /\ pResult.rest = <<"1">>
    /\ pStream.status = "Ok"

\* bytes hold a request line, headers and the blank line after them, each
\* with its terminator
HeadComplete(bytes) == HeadersEnd(bytes) <= Cardinality(LineFeeds(bytes))

\* the outcome of the parser is a Request, a failure, or, on no input at
\* all from a peer that closed, the end of the connection; the one-shot
\* parser reports the latter as a failure
DefiniteOutcome ==
    /\ pResult.status \in {"Some", "Err", "None"}
    /\ pResult.status = "None" <=> (pInput = <<>> /\ pEof)
    /\ pStream.status \in {"Ok", "Err"}
    /\ pStream.status = "Ok" <=> pResult.status = "Some"
    /\ pStream.status = "Ok" => pStream.request = pResult.request
    /\ pResult.status = "Some"
       => \E n \in 0..Len(pInput) : pResult.rest = SubSeq(pInput, n + 1, Len(pInput))

\* C28 as stated: the outcome is a Request with the stream positioned for
\* the next read or a definite failure, and a Request is returned only if
\* the input holds the request to its end: request line, headers, blank
\* line and body.
C28_OnlyCompleteRequests ==
    pDone
    => /\ DefiniteOutcome
       /\ pResult.status = "Some"
          => /\ HeadComplete(pInput)
             /\ BodyFramed(pResult, "Some")

\* C28, amended: the outcome is a Request with the stream positioned for
\* the next read or a definite failure; a Request is returned only for a
\* request line of exactly three tokens, headers that all have a colon and
\* a body that is there in full, but the end of the input stands for the
\* blank line: if the peer closes after the request line, between header
\* lines or within one, the lines read so far, the unterminated one
\* included, make a Request without body.
C28_OnlyEndOfInputRecovered ==
    pDone
    => /\ DefiniteOutcome
       /\ pResult.status = "Some"
          => /\ Cardinality(TokenStarts(FirstLine(pInput))) = 3
             /\ \A n \in 2..(HeadersEnd(pInput) - 1) :
                   FirstColon(Stripped(Line(pInput, n))) # 0
             /\ pResult.request.headers = HeadersOf(pInput)
             /\ BodyFramed(pResult, "Some")
             /\ ~HeadComplete(pInput)
                => /\ pEof
                   /\ pResult.request.body = <<>>
                   /\ pResult.rest = <<>>

\* a peer that closed in the middle of a header line, before any blank
\* line, got its bytes parsed as a Request
C28_Witness ==
    /\ pDone
    /\ pEof
    /\ pInput = <<"G", "E", "T", " ", "/", " ", "H", "T", "T", "P", "/", "1", ".", "1", "\r", "\n", "X", "-", "A", ":", " ", "1", ":", "2", "\r", "\n", "x", "-", "a", ":", " ", " ", "3", " ", "\r", "\n", "a", ":", "1">>
    /\ pResult.status = "Some"
    /\ Len(pResult.request.headers) = 3
    /\ pResult.request.headers[3] = <<<<"a">>, <<"1">>>>

\* the loop is about to read a request of which the peer sent the request
\* line, of three tokens, and no blank line before it closed
EofInHeaders(c) ==
    /\ pc[c] = "AWAITING_REQUEST"
    /\ clientEof[c]
    /\ LineFeeds(inbuf[c]) # {}
    /\ Cardinality(TokenStarts(FirstLine(inbuf[c]))) = 3
    /\ ~HeadComplete(inbuf[c])

\* the peer has closed and everything it sent has been read
StreamAtEnd(c) == clientEof[c] /\ inbuf[c] = <<>>

\* the read at EofInHeaders returns a Request with the headers read so far
ReturnsHeadersSoFar(c) ==
    /\ pc'[c] = "DISPATCHING"
    /\ request'[c] # <<>>
    /\ request'[c][1].headers = HeadersOf(inbuf[c])
    /\ StreamAtEnd(c)'

\* the request that is being served has been answered
Answered(c) ==
    /\ served'[c] # <<>>
    /\ served'[c][Len(served'[c])].wrote # <<>>
    /\ out'[c] = out[c] \o written_by_loop(response[c])
    /\ Len(out'[c]) > 0

\* the read of a loop whose stream is at its end closes the connection
\* normally
ClosesOnCleanEof(c) ==
    pc[c] = "AWAITING_REQUEST" /\ StreamAtEnd(c) /\ pc'[c] # pc[c]
    => pc'[c] = "CLOSED" /\ result'[c] = [ret |-> "Ok", by |-> "eof"]

\* C29 as stated: a read at the end of the input, after a request line and
\* before any blank line, returns a Request with the headers read so far;
\* that request is dispatched and answered, the loop reads again, and that
\* read sees the clean end of the input and closes the connection
\* normally.
C29_EofEndsHeaders ==
    [][/\ EofInHeaders(1) /\ pc'[1] # pc[1] => ReturnsHeadersSoFar(1)
       /\ pc[1] = "DISPATCHING" /\ StreamAtEnd(1) /\ pc'[1] # pc[1]
          => pc'[1] \in {"WRITE_RESPONSE", "STREAMING"}
       /\ pc[1] \in {"WRITE_RESPONSE", "STREAMED"} /\ StreamAtEnd(1) /\ pc'[1] # pc[1]
          => Answered(1) /\ pc'[1] = "AWAITING_REQUEST"
       /\ ClosesOnCleanEof(1)]_vars

\* the headers read so far, the last line without terminator included,
\* are well formed and ask for no body
HeadersSoFarAccepted(bytes) ==
    /\ \A n \in 2..(HeadersEnd(bytes) - 1) : FirstColon(Stripped(Line(bytes, n))) # 0
    /\ \A value \in FirstContentLength(HeadersOf(bytes)) :
          IsNumber(value) /\ NumberOf(value, Len(value)) = 0

\* C29, amended: a read at the end of the input, after a request line and
\* before any blank line, takes the end of the input for the end of the
\* headers. If a line read so far has no colon, or the headers ask for a
\* body, the read fails and the connection ends with that error.
\* Otherwise the read returns a Request with the headers read so far and
\* no body; the request is dispatched and, unless its handler fails with
\* an I/O error, which ends the connection, answered; then the loop ends
\* normally: at once if the request carried Connection: close, else at its
\* next read, which sees the clean end of the input.
C29_EofEndsHeadersUnlessFatal ==
    [][/\ EofInHeaders(1) /\ pc'[1] # pc[1]
          => IF HeadersSoFarAccepted(inbuf[1])
             THEN ReturnsHeadersSoFar(1) /\ request'[1][1].body = <<>>
             ELSE pc'[1] = "CLOSED" /\ result'[1] = [ret |-> "Err", by |-> "parse"]
       /\ pc[1] = "DISPATCHING" /\ StreamAtEnd(1) /\ pc'[1] # pc[1]
          => \/ pc'[1] \in {"WRITE_RESPONSE", "STREAMING"}
             \/ /\ pc'[1] = "CLOSED"
                /\ result'[1] = [ret |-> "Err", by |-> "io"]
                /\ request[1][1].method = <<"P", "O", "S", "T">>
                /\ out'[1] = out[1]
       /\ pc[1] \in {"WRITE_RESPONSE", "STREAMED"} /\ StreamAtEnd(1) /\ pc'[1] # pc[1]
          => /\ Answered(1)
             /\ IF should_close[1]
                THEN pc'[1] = "CLOSED" /\ result'[1] = [ret |-> "Ok", by |-> "close"]
                ELSE pc'[1] = "AWAITING_REQUEST" /\ result'[1] = Running
       /\ ClosesOnCleanEof(1)]_vars

\* a request cut off at its only header line was answered with the
\* echo, and the connection then ended on the clean end of the input
C29_Witness ==
    /\ pc[1] = "CLOSED"
    /\ result[1] = [ret |-> "Ok", by |-> "eof"]
    /\ Len(served[1]) = 1
    /\ served[1][1].req.path = <<"/", "e", "c", "h", "o", "/", "a", "b">>
    /\ served[1][1].req.headers = << <<<<"H", "o", "s", "t">>, <<"t">>>> >>
    /\ out[1] = build_raw(ok_text(<<"a", "b">>))
    /\ fsLog = <<>>
    /\ budget = MaxSends - 1

\* the requests connection c has parsed so far
ParsedBy(c) == [k \in 1..Len(served[c]) |-> served[c][k].req]

\* C30: a request sent with "\n" after the request line, every header
\* line and the blank line is parsed to the same Request (method, path,
\* version, headers, body) as the request sent with "\r\n", and when both
\* connections have ended the two clients have received the same bytes
\* and the two connections have ended the same way.
C30_TerminatorEquivalence ==
    /\ \A k \in 1..Len(served[1]) : k <= Len(served[2]) => served[1][k].req = served[2][k].req
    /\ pc[1] = "CLOSED" /\ pc[2] = "CLOSED"
       => /\ ParsedBy(1) = ParsedBy(2)
          /\ out[1] = out[2]
          /\ result[1] = result[2]

\* both forms of a POST with a header that ends in a carriage return of
\* its own were parsed to one Request with a body and answered with 201
C30_Witness ==
    /\ pc[1] = "CLOSED" /\ pc[2] = "CLOSED"
    /\ Len(served[1]) = 1 /\ Len(served[2]) = 1
    /\ served[1][1].req.method = <<"P", "O", "S", "T">>
    /\ served[2][1].req.headers = << <<<<"U", "s", "e", "r", "-", "A", "g", "e", "n", "t">>, <<"c">>>>, <<<<"C", "o", "n", "t", "e", "n", "t", "-", "L", "e", "n", "g", "t", "h">>, <<"2">>>> >>
    /\ served[2][1].req.body = << <<"x", "y">> >>
    /\ out[1] = build_raw(created)
    /\ out[2] = out[1]
    /\ result[2] = [ret |-> "Ok", by |-> "eof"]

\* the accept loop can accept connection c, and the task of connection c
\* can take its next step, whatever the other connections do or did
KeepsRunning(c) ==
    /\ pc[c] = "PENDING" => ENABLED Accept(c) /\ ENABLED AcceptFails(c)
    /\ pc[c] = "AWAITING_REQUEST" /\ from_reader(inbuf[c], clientEof[c]).status # "Blocked"
       => ENABLED ParseRequest(c)
    /\ pc[c] = "DISPATCHING" => ENABLED Route(c)
    /\ pc[c] = "STREAMING" => ENABLED StreamFile(c)
    /\ pc[c] \in {"WRITE_RESPONSE", "STREAMED"} => ENABLED FinishRequest(c)

\* a step leaves alone every connection but one
OneConnectionPerStep ==
    \A c, d \in DOMAIN pc : c # d /\ Local(c)' # Local(c) => Local(d)' = Local(d)

\* a step that ends a task changes no file unless it is the write of that
\* task's own request
EndsOnlyItself(c) ==
    pc[c] # "CLOSED" /\ pc'[c] = "CLOSED"
    => /\ \A d \in DOMAIN pc \ {c} : Local(d)' = Local(d)
       /\ result'[c].ret \in {"Ok", "Err"}
       /\ result'[c].by = "parse" => files' = files /\ fsLog' = fsLog

\* C31: every accepted connection is served by a task of its own; a step
\* of one task, the one that ends it with a parse or I/O error included,
\* changes nothing of another connection; whatever happened to the other
\* connection (served, ended with an error, not accepted because accept
\* failed) each task can take its next step and the accept loop can accept
\* the next connection.
C31_ConnectionsIndependent ==
    /\ [][OneConnectionPerStep /\ \A c \in DOMAIN pc : EndsOnlyItself(c)]_vars
    /\ [](\A c \in DOMAIN pc : KeepsRunning(c))

\* connection 1 ended with a parse error and then connection 2, accepted
\* afterwards, got its echo
C31_Witness ==
    /\ pc[1] = "CLOSED"
    /\ result[1] = [ret |-> "Err", by |-> "parse"]
    /\ out[1] = <<>>
    /\ pc[2] = "AWAITING_REQUEST"
    /\ Len(served[2]) = 1
    /\ out[2] = build_raw(ok_text(<<"a", "b">>))
    /\ result[2] = Running

\* each of the two connections has served one request, a POST of the file
\* f, and has written its 201
BothCreated ==
    \A c \in {1, 2} :
       /\ Len(served[c]) = 1
       /\ IsValidFilePost(served[c][1].req)
       /\ FileName(served[c][1].req) = <<"f">>
       /\ served[c][1].wrote = build_raw(created)

\* C32: once two connections have each got their 201 for a POST to the
\* same filename, the file holds exactly the body of one of the two
\* requests, never a mixture of the two.
C32_LastWriterWins ==
    BothCreated
    => files[<<"f">>].data \in {BodyOf(served[1][1].req), BodyOf(served[2][1].req)}

\* the read of the next request on c is waiting for bytes
Waiting(c) ==
    /\ pc[c] = "AWAITING_REQUEST"
    /\ from_reader(inbuf[c], clientEof[c]).status = "Blocked"

\* how the loop of c, now closed, came to its end
ClosedBy(c) ==
    \/ /\ result[c] = [ret |-> "Ok", by |-> "eof"]
       /\ clientEof[c]
       /\ inbuf[c] = <<>>
    \/ /\ result[c] = [ret |-> "Ok", by |-> "close"]
       /\ served[c] # <<>>
       /\ should_close_of(served[c][Len(served[c])].req)
       /\ served[c][Len(served[c])].wrote # <<>>
    \/ /\ result[c] = [ret |-> "Err", by |-> "parse"]
       /\ from_reader(inbuf[c], clientEof[c]).status = "Err"
    \/ /\ result[c] = [ret |-> "Err", by |-> "io"]
       /\ served[c] # <<>>
       /\ served[c][Len(served[c])].io
    \/ result[c] = [ret |-> "Err", by |-> "transport"]

\* C33: while the read of the next request waits and the client neither
\* sends nor closes, the loop stays where it is unless the transport
\* fails: nothing times out. The loop is closed only by a clean EOF, after
\* the response to a request with Connection: close, or by a fatal parse,
\* I/O or transport error. Once the client has closed its side the loop
\* terminates.
C33_NoTimeoutAndTermination ==
    /\ [][Waiting(1) /\ inbuf'[1] = inbuf[1] /\ clientEof'[1] = clientEof[1]
          => \/ pc'[1] = "AWAITING_REQUEST"
             \/ pc'[1] = "CLOSED" /\ result'[1] = [ret |-> "Err", by |-> "transport"]]_vars
    /\ [](pc[1] = "CLOSED" => ClosedBy(1))
    /\ [](Waiting(1) => ~ENABLED TaskStep(1))
    /\ (clientEof[1] ~> pc[1] = "CLOSED")

\* a request has been answered, the client is silent and has not closed:
\* the task can take no step
C33_Witness ==
    /\ Waiting(1)
    /\ inbuf[1] = <<>>
    /\ ~clientEof[1]
    /\ budget = 0
    /\ served[1] # <<>>
    /\ out[1] # <<>>
    /\ ~ENABLED TaskStep(1)

\* the step is one in which the request being served on c fails
HandlerFails(c) ==
    /\ pc[c] \in {"DISPATCHING", "WRITE_RESPONSE", "STREAMING", "STREAMED"}
    /\ pc'[c] = "CLOSED"
    /\ result'[c].ret = "Err"

\* the write of the valid POST being dispatched on c cannot succeed
WriteCannotSucceed(c) ==
    /\ pc[c] = "DISPATCHING"
    /\ posts_file(unwrap(request[c]))
    /\ ~is_some(write(files, join(FilesDir, FileName(unwrap(request[c]))),
                      BodyOf(unwrap(request[c]))))

NotFoundCase(req, fs) ==
    \/ Matching(req.path) = {}
    \/ Matching(req.path) = {"user-agent"} /\ FirstUserAgent(req) = {}
    \/ /\ Matching(req.path) = {"files"}
       /\ \/ ~OneNormalComponent(FileName(req))
          \/ req.method \notin {<<"G", "E", "T">>, <<"P", "O", "S", "T">>}
          \/ req.method = <<"G", "E", "T">> /\ ~IsFileGetSuccess(req, fs)

\* the 404 reply in its parts
NotFoundReply ==
    <<"H", "T", "T", "P", "/", "1", ".", "1", " ", "4", "0", "4", " ", "N", "o", "t", " ", "F", "o", "u", "n", "d", "\r", "\n">> \o <<"C", "o", "n", "t", "e", "n", "t", "-", "T", "y", "p", "e", ":", " ", "t", "e", "x", "t", "/", "p", "l", "a", "i", "n", "\r", "\n">>
    \o <<"C", "o", "n", "t", "e", "n", "t", "-", "L", "e", "n", "g", "t", "h", ":", " ", "9", "\r", "\n">> \o <<"\r", "\n">> \o <<"N", "o", "t", " ", "F", "o", "u", "n", "d">>

\* C35: every request in one of the 404 cases of the router (unknown
\* path, /user-agent without the header, invalid filename, missing or
\* non-regular file, method other than GET and POST on /files/) is
\* answered, once, with the same bytes: the status line HTTP/1.1 404 Not
\* Found, Content-Type: text/plain, Content-Length: 9 and the body Not
\* Found, and no other request is. The 404 does not end the connection:
\* after it the loop reads the next request, unless the request asked for
\* Connection: close, and that next request gets the response the router
\* yields for it alone.
C35_NotFoundReply ==
    /\ [](\A i \in 1..Len(served[1]) :
            Done(1, i)
            => /\ NotFoundCase(served[1][i].req, served[1][i].files)
                  <=> served[1][i].wrote = NotFoundReply
               /\ served[1][i].wrote = NotFoundReply
                  => /\ served[1][i].loop = 1
                     /\ served[1][i].stream = 0
                     /\ ~served[1][i].io
               /\ (i > 1 /\ served[1][i - 1].wrote = NotFoundReply)
                  => served[1][i].wrote
                       = ResponseAlone(served[1][i].req, served[1][i].files))
    /\ [][(/\ pc[1] = "WRITE_RESPONSE"
           /\ pc'[1] # pc[1]
           /\ NotFoundCase(unwrap(request[1]), served[1][Len(served[1])].files))
          => /\ out'[1] = out[1] \o NotFoundReply
             /\ IF CarriesClose(unwrap(request[1]))
                THEN pc'[1] = "CLOSED" /\ result'[1] = [ret |-> "Ok", by |-> "close"]
                ELSE pc'[1] = "AWAITING_REQUEST" /\ result'[1] = Running]_vars

\* a GET of a directory was answered 404 and the POST sent after it on the
\* same connection was parsed and answered 201
C35_Witness ==
    /\ Len(served[1]) = 2
    /\ served[1][1].req.path = <<"/", "f", "i", "l", "e", "s", "/", "d">>
    /\ served[1][1].wrote = NotFoundReply
    /\ served[1][2].req.method = <<"P", "O", "S", "T">>
    /\ served[1][2].req.body = << <<"x", "y">> >>
    /\ out[1] = NotFoundReply \o build_raw(created)
    /\ pc[1] = "AWAITING_REQUEST"

\* C36: the bytes of a streamed GET /files/{name} response are a 200 head
\* whose Content-Length is the number of body bytes that follow it, also
\* when another connection POSTs to the same name while the response is
\* being produced.
C36_StreamedLengthMatches ==
    \A c \in DOMAIN pc : \A i \in 1..Len(served[c]) :
        served[c][i].stream = 1
        => served[c][i].wrote
             = FileBytes(SubSeq(served[c][i].wrote, EndOfHead(served[c][i].wrote) + 1,
                                Len(served[c][i].wrote)))

\* the entries of the served directory that the step creates, removes or
\* changes
ChangedFiles ==
    {n \in DOMAIN files \cup DOMAIN files' :
        \/ n \notin DOMAIN files
        \/ n \notin DOMAIN files'
        \/ files[n] # files'[n]}

\* C37: a step changes a file under the served directory only if it
\* dispatches a POST /files/{name} with a valid name, and then it changes
\* only the file of that name, to the request's body; requests to root,
\* echo, user-agent and unknown paths, GETs of files, requests to /files/
\* with an invalid name or with a method other than POST change none.
C37_OnlyPostChangesItsFile ==
    [][ChangedFiles # {}
       => /\ pc[1] = "DISPATCHING"
          /\ IsValidFilePost(unwrap(request[1]))
          /\ ChangedFiles = {EntryOf(FileName(unwrap(request[1])))}
          /\ files'[EntryOf(FileName(unwrap(request[1])))]
               = [kind |-> "file", data |-> BodyOf(unwrap(request[1]))]
          /\ DOMAIN files \subseteq DOMAIN files']_vars

\* a POST has created the file n next to d and f, which are as they were
C37_Witness ==
    /\ Len(served[1]) = 1
    /\ served[1][1].req.path = <<"/", "f", "i", "l", "e", "s", "/", "n">>
    /\ pc[1] = "WRITE_RESPONSE"
    /\ files = Dir_d_f @@ (<<"n">> :> [kind |-> "file", data |-> <<"z">>])

\* the values of the first header of req named Connection in any letter
\* case: one value, or none
FirstConnection(req) ==
    {req.headers[i][2] : i \in {k \in 1..Len(req.headers) :
        /\ Lower(req.headers[k][1]) = <<"c", "o", "n", "n", "e", "c", "t", "i", "o", "n">>
        /\ \A j \in 1..(k - 1) : Lower(req.headers[j][1]) # <<"c", "o", "n", "n", "e", "c", "t", "i", "o", "n">>}}

\* the request being served on c asks for the close
AsksForClose(c) ==
    \E value \in FirstConnection(unwrap(request[c])) : Lower(value) = <<"c", "l", "o", "s", "e">>

\* C38: when the response to a request has been produced, the loop ends
\* if the value of the request's first Connection header is close in any
\* letter case, and otherwise goes on to the next request; any other
\* value, a later Connection header, the version, the route, the status
\* of the response and the requests served before make no difference.
C38_CloseOnlyByFirstConnectionHeader ==
    /\ [][pc[1] \in {"WRITE_RESPONSE", "STREAMED"} /\ pc'[1] # pc[1]
          => IF AsksForClose(1)
             THEN pc'[1] = "CLOSED" /\ result'[1] = [ret |-> "Ok", by |-> "close"]
             ELSE pc'[1] = "AWAITING_REQUEST" /\ result'[1] = Running]_vars
    /\ [](\A i \in 1..Len(served[1]), j \in 1..Len(served[1]) :
            (/\ i < j
             /\ served[1][i].wrote # <<>>
             /\ FirstConnection(served[1][i].req) = FirstConnection(served[1][j].req))
            => \A value \in FirstConnection(served[1][j].req) : Lower(value) # <<"c", "l", "o", "s", "e">>)

\* after a 404 to a request with keep-alive first and close second, the
\* loop went on and closed after the 200 to a HTTP/1.0 request whose
\* first Connection header said CLOSE
C38_Witness ==
    /\ pc[1] = "CLOSED"
    /\ result[1] = [ret |-> "Ok", by |-> "close"]
    /\ Len(served[1]) = 2
    /\ served[1][1].req.path = <<"/", "n", "o", "p", "e">>
    /\ served[1][1].req.headers
         = << <<<<"C", "o", "n", "n", "e", "c", "t", "i", "o", "n">>, <<"k", "e", "e", "p", "-", "a", "l", "i", "v", "e">>>>, <<<<"C", "o", "n", "n", "e", "c", "t", "i", "o", "n">>, <<"c", "l", "o", "s", "e">>>> >>
    /\ served[1][2].req.http_version = <<"H", "T", "T", "P", "/", "1", ".", "0">>
    /\ served[1][2].req.headers = << <<<<"c", "o", "n", "n", "e", "c", "t", "i", "o", "n">>, <<"C", "L", "O", "S", "E">>>> >>
    /\ out[1] = NotFoundReply \o build_raw(ok_text(<<>>))

-----------------------------------------------------------------------------

(* Properties: a blank line where a request line is expected *)

\* the next line connection 1's loop reads holds bytes, all of them
\* carriage returns and line feeds
StrayLineNext ==
    /\ pc[1] = "AWAITING_REQUEST"
    /\ Len(Line(inbuf[1], 1)) > 0
    /\ Stripped(Line(inbuf[1], 1)) = <<>>

\* C39: when the loop awaits a request and the next line it reads has bytes
\* but none after its terminator is stripped, the parser reports the error
\* "invalid request line" (not the end of the connection), and the loop's
\* step closes the connection with that error: nothing is written, the
\* line is not consumed to look for a request behind it, and no request is
\* parsed.
C39_BlankLineIsFatal ==
    [][ (StrayLineNext /\ pc'[1] # pc[1])
        => /\ from_reader(inbuf[1], clientEof[1])
                = [status |-> "Err", error |-> "invalid request line"]
           /\ from_stream(inbuf[1], clientEof[1])
                = [status |-> "Err", error |-> "invalid request line"]
           /\ pc'[1] = "CLOSED"
           /\ result'[1] = [ret |-> "Err", by |-> "parse"]
           /\ out'[1] = out[1]
           /\ served'[1] = served[1]
           /\ inbuf'[1] = inbuf[1]
           /\ request'[1] = request[1] ]_vars

\* a POST has been answered with 201, and the CRLF left over after its body
\* has closed the connection with a parse error
C39_Witness ==
    /\ pc[1] = "CLOSED"
    /\ result[1] = [ret |-> "Err", by |-> "parse"]
    /\ Len(served[1]) = 1
    /\ served[1][1].req.method = <<"P", "O", "S", "T">>
    /\ inbuf[1] = <<"\r", "\n">>
    /\ out[1] = build_raw(created)

====
